---- MODULE Spec2Model ----
(***************************************************************************)
(* A model of coq_serapy's SerapiInstance: the driver of a sertop child    *)
(* process.  The driver's mirror (cur_state, proof_context, tactic         *)
(* history, module/section stack, local-lemma registry, command log) is    *)
(* translated from src/coq_serapy/__init__.py; the child process is the    *)
(* environment: a deterministic document of sentences with state ids,      *)
(* which may die, hang, answer late or emit an ill-formed line.            *)
(***************************************************************************)
EXTENDS Integers, Sequences, FiniteSets, TLC

VARIABLES
    cur_state,            \* SerapiInstance.cur_state
    prev_state,           \* SerapiInstance.prev_state
    proof_context,        \* SerapiInstance.proof_context (NoCtx is None)
    tactic_history,       \* SerapiInstance.tactic_history
    sm_stack,             \* SerapiInstance.sm_stack
    _local_lemmas,        \* SerapiInstance._local_lemmas
    _local_lemmas_cache,  \* SerapiInstance._local_lemmas_cache (none: None)
    _module_changed,      \* SerapiInstance._module_changed
    _added_libs,          \* SerapiInstance._added_libs
    includes,             \* configuration: the load-path requests of _CoqProject
    env,                  \* CoqEnv: coq_commands, proof_search_id, frames of reset() on the stack
    _hist,                \* SerapiInstance._hist, the command log
    _n_resets,            \* SerapiInstance._n_resets
    _proc,                \* the child process: alive, document, next state id
    reset_on_cancel_fail, \* configuration flag
    wrap,                 \* configuration: module_path.stem opens a Module at init
    scope,                \* SerapiContext: where it is, and the children spawned
    op,                   \* the public call that ran last
    exc,                  \* what that call raised ("none": it returned)
    obs,                  \* observations of that call (history variables)
    faults,               \* environment faults injected so far
    arg,                  \* the argument of a text function, and how often it was applied
    io                    \* the reader threads, the pipes and the message queue

vars == <<cur_state, prev_state, proof_context, tactic_history, sm_stack,
          _local_lemmas, _local_lemmas_cache, _module_changed, _added_libs,
                includes, env, _hist, _n_resets,
          _proc, reset_on_cancel_fail, wrap,
          scope, op, exc, obs, faults, arg, io>>

----------------------------------------------------------------------------
(* Bounds of the model *)

\* bounds of the exploration
\* statements in the log, beyond the module wrapper
MaxHist == 3
\* calls that hit an error, per run
MaxFaults == 1
\* state ids the child hands out, beyond those init takes
MaxAdds == 3
\* resets per run
MaxResets == 1
\* children (and reader threads) the instance starts, one after the other
MaxReaders == 2
\* lines a child writes to its stdout
MaxLines == 2
\* requests written to the child in one run of the wire protocol
MaxRequests == 6
\* timeout windows and messages that one wait on the queue is followed through
MaxArrivals == 6
\* statements of a proof script in the log, beyond the module wrapper
MaxProof == 5
MaxNodes == 4
MaxIncludes == 3
MaxRegistry == 4
MaxRegistryAdds == 5
\* tactics an agent has applied to the theorem of a CoqEnv
MaxEnvSteps == 2
\* state ids the child hands out to a proof script, beyond those init takes
MaxProofAdds == 6
\* statements of a script, beyond the module wrapper
MaxScript == 6
\* characters of a string given to kill_comments
MaxText == 5

----------------------------------------------------------------------------
(* Sequence helpers *)

Last(s) == s[Len(s)]
Front(s) == SubSeq(s, 1, Len(s) - 1)

RECURSIVE Flatten(_)
Flatten(ss) == IF ss = <<>> THEN <<>> ELSE Head(ss) \o Flatten(Tail(ss))

RECURSIVE SelectSeqNot(_, _)
\* the entries of s that are not equal to x, order kept
SelectSeqNot(s, x) ==
    IF s = <<>> THEN <<>>
    ELSE IF Head(s) = x THEN SelectSeqNot(Tail(s), x)
         ELSE <<Head(s)>> \o SelectSeqNot(Tail(s), x)

\* list.remove(x): the first occurrence of x removed (the caller checks it is there)
RemoveFirst(s, x) ==
    LET i == CHOOSE k \in 1..Len(s) : s[k] = x /\ \A j \in 1..(k-1) : s[j] # x
    IN SubSeq(s, 1, i - 1) \o SubSeq(s, i + 1, Len(s))

InSeq(s, x) == \E k \in 1..Len(s) : s[k] = x

----------------------------------------------------------------------------
(* ProofContext and Obligation *)

NoCtx == [none |-> TRUE, fg |-> <<>>, bg |-> <<>>, shelved |-> <<>>, given_up |-> <<>>]

ProofContext(fg, bg, shelved, given_up) ==
    [none |-> FALSE, fg |-> fg, bg |-> bg, shelved |-> shelved, given_up |-> given_up]

----------------------------------------------------------------------------
(* TacticHistory: a tree of tactic entries and nested frames, the depth of  *)
(* the focused frame, and the shadow stack of background obligations.       *)

TacEntry(text, sid) == [tac |-> TRUE, text |-> text, sid |-> sid, children |-> <<>>]
TacticTree(children) == [tac |-> FALSE, text |-> "", sid |-> 0, children |-> children]

TacticHistoryNew == [tree |-> <<>>, depth |-> 0, subgoal_tree |-> <<>>]

RECURSIVE PathOK(_, _)
\* the walk "for i in range(depth): curTree = curTree.children[-1]" passes its
\* asserts: every last child on the way is a frame
PathOK(children, depth) ==
    IF depth = 0 THEN TRUE
    ELSE /\ children # <<>>
         /\ ~Last(children).tac
         /\ PathOK(Last(children).children, depth - 1)

RECURSIVE FrameAt(_, _)
\* the children of the frame the walk ends at
FrameAt(children, depth) ==
    IF depth = 0 THEN children
    ELSE FrameAt(Last(children).children, depth - 1)

RECURSIVE SetFrameAt(_, _, _)
\* the tree with the children of that frame replaced
SetFrameAt(children, depth, new) ==
    IF depth = 0 THEN new
    ELSE [children EXCEPT ![Len(children)] =
            TacticTree(SetFrameAt(Last(children).children, depth - 1, new))]

\* each operation yields [ok, th]: ok is FALSE when an assert (or an index) fails
openSubgoal(th, background_subgoals) ==
    IF ~PathOK(th.tree, th.depth) THEN [ok |-> FALSE, th |-> th]
    ELSE [ok |-> TRUE,
          th |-> [tree |-> SetFrameAt(th.tree, th.depth,
                              Append(FrameAt(th.tree, th.depth), TacticTree(<<>>))),
                  depth |-> th.depth + 1,
                  subgoal_tree |-> Append(th.subgoal_tree, background_subgoals)]]

\* closeSubgoal leaving the shadow stack alone
closeSubgoal_keep(th) ==
    IF th.depth <= 0 \/ th.subgoal_tree = <<>> THEN [ok |-> FALSE, th |-> th]
    ELSE [ok |-> TRUE, th |-> [th EXCEPT !.depth = @ - 1]]

closeSubgoal(th) ==
    IF th.depth <= 0 \/ th.subgoal_tree = <<>> THEN [ok |-> FALSE, th |-> th]
    ELSE [ok |-> TRUE,
          th |-> [th EXCEPT !.depth = @ - 1, !.subgoal_tree = Front(@)]]

addTactic(th, tactic, sid) ==
    IF ~PathOK(th.tree, th.depth) THEN [ok |-> FALSE, th |-> th]
    ELSE [ok |-> TRUE,
          th |-> [th EXCEPT !.tree = SetFrameAt(th.tree, th.depth,
                              Append(FrameAt(th.tree, th.depth), TacEntry(tactic, sid)))]]

\* removeLast re-entering a closed frame without its obligations
removeLast_bare(th, all_subgoals) ==
    IF th.tree = <<>> \/ ~PathOK(th.tree, th.depth) THEN [ok |-> FALSE, th |-> th]
    ELSE LET cur == FrameAt(th.tree, th.depth) IN
         IF cur = <<>>
         THEN IF th.depth = 0 \/ th.subgoal_tree = <<>> THEN [ok |-> FALSE, th |-> th]
              ELSE [ok |-> TRUE,
                    th |-> [tree |-> SetFrameAt(th.tree, th.depth - 1,
                                        Front(FrameAt(th.tree, th.depth - 1))),
                            depth |-> th.depth - 1,
                            subgoal_tree |-> Front(th.subgoal_tree)]]
         ELSE IF Last(cur).tac
              THEN [ok |-> TRUE,
                    th |-> [th EXCEPT !.tree = SetFrameAt(th.tree, th.depth, Front(cur))]]
              ELSE [ok |-> TRUE,
                    th |-> [th EXCEPT !.depth = @ + 1,
                                      !.subgoal_tree = Append(@, <<>>)]]

removeLast(th, all_subgoals) ==
    IF th.tree = <<>> \/ ~PathOK(th.tree, th.depth) THEN [ok |-> FALSE, th |-> th]
    ELSE LET cur == FrameAt(th.tree, th.depth) IN
         IF cur = <<>>
         THEN \* the focused frame is empty: pop the frame itself
              IF th.depth = 0 \/ th.subgoal_tree = <<>> THEN [ok |-> FALSE, th |-> th]
              ELSE [ok |-> TRUE,
                    th |-> [tree |-> SetFrameAt(th.tree, th.depth - 1,
                                        Front(FrameAt(th.tree, th.depth - 1))),
                            depth |-> th.depth - 1,
                            subgoal_tree |-> Front(th.subgoal_tree)]]
         ELSE IF Last(cur).tac
              THEN [ok |-> TRUE,
                    th |-> [th EXCEPT !.tree = SetFrameAt(th.tree, th.depth, Front(cur))]]
              ELSE \* the last child is a closed frame: re-enter it
                   [ok |-> TRUE,
                    th |-> [th EXCEPT !.depth = @ + 1,
                                      !.subgoal_tree = Append(@, all_subgoals)]]

RECURSIVE CurrentHistoryFrom(_, _)
CurrentHistoryFrom(children, depth) ==
    SelectSeq(children, LAMBDA c : c.tac)
      \o (IF depth = 0 THEN <<>>
          ELSE CurrentHistoryFrom(Last(children).children, depth - 1))

\* the tactic entries on the path from the root to the focused frame;
\* defined when PathOK holds
getCurrentHistory(th) == CurrentHistoryFrom(th.tree, th.depth)

\* getFullHistory() yields one item at least for every child of the root, so
\* its length is positive exactly when the root has a child
FullHistoryNonEmpty(th) == th.tree # <<>>

\* getNextCancelled(): "{" for an empty focused frame, "}" for a closed frame,
\* else the last tactic entry; [ok, text]
getNextCancelled(th) ==
    IF th.tree = <<>> \/ ~PathOK(th.tree, th.depth) THEN [ok |-> FALSE, text |-> ""]
    ELSE LET cur == FrameAt(th.tree, th.depth) IN
         IF cur = <<>> THEN [ok |-> TRUE, text |-> "{"]
         ELSE IF ~Last(cur).tac THEN [ok |-> TRUE, text |-> "}"]
         ELSE [ok |-> TRUE, text |-> Last(cur).text]

----------------------------------------------------------------------------
(* The statements offered to the driver.  Each stands for the Coq text in  *)
(* its name; what the driver's regular expressions make of it is given by  *)
(* the recognisers below, what the prover makes of it by ProverEval.        *)

WrapperStmt == "Module X."      \* f"Module {self.module_path.stem}."
UnsetStmt   == "Unset Printing Notations."

Tactics == {"split.", "easy.", "admit.", "apply nonsense.", "anomaly."}
Stmts == {"Lemma l.", "split.", "easy.", "admit.", "{", "}", "Qed.", "Abort.",
          "Module M.", "Section S.", "End M.", "End S.",
          "apply nonsense.", "anomaly.", "Lemma (."}

----------------------------------------------------------------------------
(* The child process (sertop) as the driver sees it: a document of added   *)
(* sentences, each with the state id it was Added as and the proof state   *)
(* after it.  It is deterministic: what a sentence does depends only on    *)
(* the sentences before it.                                                *)

BaseSt == [inproof |-> FALSE, fg |-> <<>>, stack |-> <<>>, shelved |-> <<>>,
           given_up |-> <<>>, mods |-> <<>>]

Fail(st, err) == [ok |-> FALSE, err |-> err, st |-> st]
Ok(st) == [ok |-> TRUE, err |-> "", st |-> st]

\* a tactic is run on the focused goal
TacticEval(st, stmt) ==
    IF ~st.inproof THEN Fail(st, "other")
    ELSE IF stmt = "anomaly." THEN Fail(st, "Anomaly")
    ELSE IF st.fg = <<>> THEN Fail(st, "NoSuchGoals")
    ELSE CASE stmt = "split." ->
                IF Head(st.fg) = "A/\\B"
                THEN Ok([st EXCEPT !.fg = <<"A", "B">> \o Tail(st.fg)])
                ELSE Fail(st, "Unable to unify")
           [] stmt = "easy." ->
                Ok([st EXCEPT !.fg = Tail(st.fg)])
           [] stmt = "admit." ->
                Ok([st EXCEPT !.fg = Tail(st.fg),
                              !.given_up = Append(st.given_up, Head(st.fg))])
           [] OTHER -> Fail(st, "Unable to unify")

\* what executing a sentence in proof state st yields: [ok, err, st]
ProverEval(st, stmt) ==
    CASE stmt \in Tactics -> TacticEval(st, stmt)
      [] stmt \in {"Lemma l.", "Let x.", "Derive d."} ->
            IF st.inproof THEN Fail(st, "other")   \* nested proofs are not allowed
            ELSE Ok([st EXCEPT !.inproof = TRUE, !.fg = <<"A/\\B">>])
      [] stmt = "{" ->
            IF st.inproof /\ st.fg # <<>>
            THEN Ok([st EXCEPT !.fg = <<Head(st.fg)>>,
                               !.stack = <<Tail(st.fg)>> \o st.stack])
            ELSE Fail(st, IF st.inproof THEN "NoSuchGoals" ELSE "other")
      [] stmt = "2: {" ->     \* the goal selector focuses the second goal
            IF st.inproof /\ Len(st.fg) >= 2
            THEN Ok([st EXCEPT !.fg = <<st.fg[2]>>,
                               !.stack = <<(<<st.fg[1]>> \o SubSeq(st.fg, 3, Len(st.fg)))>>
                                         \o st.stack])
            ELSE Fail(st, IF st.inproof THEN "NoSuchGoals" ELSE "other")
      [] stmt = "}" ->
            IF st.inproof /\ st.fg = <<>> /\ st.stack # <<>>
            THEN Ok([st EXCEPT !.fg = Head(st.stack), !.stack = Tail(st.stack)])
            ELSE Fail(st, "other")
      [] stmt = "Qed." ->
            IF st.inproof /\ st.fg = <<>> /\ st.stack = <<>> /\ st.given_up = <<>>
            THEN Ok([BaseSt EXCEPT !.mods = st.mods])
            ELSE Fail(st, "other")
      [] stmt \in {"Abort.", "Admitted."} ->
            IF st.inproof THEN Ok([BaseSt EXCEPT !.mods = st.mods])
            ELSE Fail(st, "other")
      [] stmt \in {"Module M.", "Module X."} ->
            IF st.inproof THEN Fail(st, "other")
            ELSE Ok([st EXCEPT !.mods =
                        Append(@, IF stmt = "Module M." THEN "M" ELSE "X")])
      [] stmt = "Section S." ->
            IF st.inproof THEN Fail(st, "other")
            ELSE Ok([st EXCEPT !.mods = Append(@, "S")])
      [] stmt \in {"End M.", "End S."} ->
            IF ~st.inproof /\ st.mods # <<>>
               /\ Last(st.mods) = (IF stmt = "End M." THEN "M" ELSE "S")
            THEN Ok([st EXCEPT !.mods = Front(@)])
            ELSE Fail(st, "other")
      [] OTHER -> Ok(st)        \* Unset Printing Notations and the like

\* the sentences sertop cannot parse: Add answers CoqExn for them
SyntaxBad(stmt) == stmt = "Lemma (."

NewProc == [alive |-> TRUE, doc |-> <<>>, next |-> 2, lastAdded |-> 0]

TipSid(p) == IF p.doc = <<>> THEN 1 ELSE Last(p.doc).sid
TipSt(p) == IF p.doc = <<>> THEN BaseSt ELSE Last(p.doc).st

\* (Add () "stmt"): [p, added, sid, err]
ProverAdd(p, stmt) ==
    IF SyntaxBad(stmt)
    THEN [p |-> p, added |-> FALSE, sid |-> 0, err |-> "Syntax error"]
    ELSE [p |-> [p EXCEPT !.doc = Append(@, [sid |-> p.next, stmt |-> stmt,
                                             st |-> TipSt(p), exec |-> FALSE,
                                             bad |-> ""]),
                          !.next = @ + 1,
                          !.lastAdded = p.next],
          added |-> TRUE, sid |-> p.next, err |-> ""]

\* the proof state and the failure that sentence i of the document starts from
PrevSt(doc, i) == IF i = 1 THEN BaseSt ELSE doc[i-1].st
PrevBad(doc, i) == IF i = 1 THEN "" ELSE doc[i-1].bad

\* the sentence e once executed from prevSt, r being what evaluating it yields
ExecEntry(e, prevSt, prevBad, r) ==
    IF e.exec /\ e.bad = "" /\ prevBad = "" THEN e
    ELSE IF prevBad # ""
         THEN [e EXCEPT !.exec = TRUE, !.bad = prevBad, !.st = prevSt]
    ELSE IF r.ok THEN [e EXCEPT !.exec = TRUE, !.bad = "", !.st = r.st]
    ELSE [e EXCEPT !.exec = TRUE, !.bad = r.err, !.st = prevSt]

RECURSIVE ExecFrom(_, _, _)
\* the document with its sentences i..n executed in order; a sentence after
\* a failed one fails the same way
ExecFrom(doc, i, n) ==
    IF i > n THEN doc
    ELSE ExecFrom([doc EXCEPT ![i] =
                      ExecEntry(doc[i], PrevSt(doc, i), PrevBad(doc, i),
                                ProverEval(PrevSt(doc, i), doc[i].stmt))],
                  i + 1, n)

DocIndex(doc, sid) ==
    IF \E i \in 1..Len(doc) : doc[i].sid = sid
    THEN CHOOSE i \in 1..Len(doc) : doc[i].sid = sid
    ELSE 0

\* (Exec sid): [p, err]; err is "" when the sentence ran
ExecDone(p, n, d2) == [p |-> [p EXCEPT !.doc = d2], err |-> d2[n].bad]

ExecAt(p, n) ==
    IF n = 0 THEN [p |-> p, err |-> "other"]
    ELSE ExecDone(p, n, ExecFrom(p.doc, 1, n))

ProverExec(p, sid) == ExecAt(p, DocIndex(p.doc, sid))

\* (Cancel (sid)): the sentence and all after it leave the document; the
\* Feedback carries the state rolled back to, Canceled the ids removed
ProverCancel(p, sid) ==
    LET n == DocIndex(p.doc, sid) IN
    IF n = 0 THEN [p |-> p, ok |-> FALSE, span_id |-> 0, canceled |-> <<>>]
    ELSE LET d2 == SubSeq(p.doc, 1, n - 1)
         IN [p |-> [p EXCEPT !.doc = d2], ok |-> TRUE,
             span_id |-> IF d2 = <<>> THEN 1 ELSE Last(d2).sid,
             canceled |-> [i \in 1..(Len(p.doc) - n + 1) |-> p.doc[n + i - 1].sid]]

\* (Query () Goals) at the tip: the four goal lists, bg being the focus stack
\* flattened; none outside a proof
ProverGoals(p) ==
    LET st == TipSt(p) IN
    IF ~st.inproof THEN NoCtx
    ELSE ProofContext(st.fg, Flatten(st.stack), st.shelved, st.given_up)

----------------------------------------------------------------------------
(* kill_comments, on strings as sequences of characters *)

Chars == {"(", "*", ")", "\"", "\\", "a"}

RECURSIVE kill_comments_from(_, _, _)
\* the loop of kill_comments from position i (1-based) on, st holding result,
\* depth and in_quote.  string[i-1] at the first position is the last
\* character (Python's index -1); string[i-1:i+1] there is never "*)"
kill_comments_from(string, i, st) ==
    IF i > Len(string) THEN st.result
    ELSE LET c == string[i]
             prev == IF i = 1 THEN string[Len(string)] ELSE string[i - 1]
             opens == c = "(" /\ i < Len(string) /\ string[i + 1] = "*"
             closes == i > 1 /\ string[i - 1] = "*" /\ c = ")"
             quote == c = "\"" /\ prev # "\\"
             Step(depth0, depth1, q) ==
                 kill_comments_from(string, i + 1,
                     [result |-> IF depth0 = 0 THEN Append(st.result, c)
                                 ELSE st.result,
                      depth |-> depth1, in_quote |-> q])
             Opened(d) == Step(d, IF closes /\ d > 0 THEN d - 1 ELSE d, quote)
         IN IF st.in_quote THEN Step(st.depth, st.depth, ~quote)
            ELSE Opened(IF opens THEN st.depth + 1 ELSE st.depth)

kill_comments(string) ==
    kill_comments_from(string, 1, [result |-> <<>>, depth |-> 0, in_quote |-> FALSE])

----------------------------------------------------------------------------
(* The driver's recognisers, on the statements above *)

\* re.match(r"\s*(?:\d+\s*:)?\s*[{]\s*", stm)
is_goal_open(stm) == stm \in {"{", "2: {"}
\* re.match(r"\s*[}]\s*", stm)
is_goal_close(stm) == stm = "}"
\* re.match(r"\s*Unshelve\s*\.\s*", stm)
is_unshelve(stm) == stm = "Unshelve."

possibly_starting_proof(command) ==
    command \in {"Lemma l.", "Lemma (.", "Let x.", "Derive d."}

\* "Let" in cmd
LetIn(cmd) == cmd = "Let x."

\* "".join(module + "." ...) over the non-section entries, kept as the
\* sequence of the names joined
module_prefix(stack) ==
    LET mods == SelectSeq(stack, LAMBDA e : ~e.is_section)
    IN [i \in 1..Len(mods) |-> mods[i].name]

\* the statements a command declares: prefix.name : body; none for a command
\* that no pattern matches, as 'Derive'
_lemmas_defined_by_stmt(stack, cmd) ==
    CASE cmd = "Lemma l." -> << [pre |-> module_prefix(stack), name |-> "l"] >>
      [] cmd = "Let x."   -> << [pre |-> module_prefix(stack), name |-> "x"] >>
      [] OTHER -> <<>>

\* update_sm_stack popping at any End, the name of the top entry not compared
update_sm_stack_unchecked(stack, cmd) ==
    CASE cmd \in {"Module M.", "Module X."} ->
            [ok |-> TRUE,
             stack |-> Append(stack, [name |-> IF cmd = "Module M." THEN "M" ELSE "X",
                                      is_section |-> FALSE])]
      [] cmd = "Section S." ->
            [ok |-> TRUE, stack |-> Append(stack, [name |-> "S", is_section |-> TRUE])]
      [] cmd \in {"End M.", "End S."} ->
            IF stack # <<>>
            THEN [ok |-> TRUE, stack |-> Front(stack)]
            ELSE [ok |-> FALSE, stack |-> stack]
      [] OTHER -> [ok |-> TRUE, stack |-> stack]

\* [ok, stack]: ok is FALSE where the source runs into "assert False"
update_sm_stack(stack, cmd) ==
    CASE cmd \in {"Module M.", "Module X."} ->
            [ok |-> TRUE,
             stack |-> Append(stack, [name |-> IF cmd = "Module M." THEN "M" ELSE "X",
                                      is_section |-> FALSE])]
      [] cmd = "Section S." ->
            [ok |-> TRUE, stack |-> Append(stack, [name |-> "S", is_section |-> TRUE])]
      [] cmd \in {"End M.", "End S."} ->
            IF stack # <<>> /\ Last(stack).name = (IF cmd = "End M." THEN "M" ELSE "S")
            THEN [ok |-> TRUE, stack |-> Front(stack)]
            ELSE [ok |-> FALSE, stack |-> stack]
      [] OTHER -> [ok |-> TRUE, stack |-> stack]

----------------------------------------------------------------------------
(* The driver.  An operation takes the world w (the mirror, the child, the *)
(* configuration, the observations) and yields [w, exc]: the world after   *)
(* it and the exception it raises ("none" when it returns).                *)

Ret(w) == [w |-> w, exc |-> "none"]
Raise(w, e) == [w |-> w, exc |-> e]

\* an exception inside run_stmt's try block: its class, its message, and
\* whether the Exec had been sent
Exn(w, type, msg, stage) == [w |-> w, type |-> type, msg |-> msg, stage |-> stage]

HistEntry(stmt, ok, sid) == [stmt |-> stmt, ok |-> ok, sid |-> sid]

TrimHist(w) == [w EXCEPT !._hist = IF @ = <<>> THEN <<>> ELSE Front(@)]

\* _add_potential_module_stack_cmd without the test self.sm_stack[-1][1]:
\* the section-local lemmas are dropped at the End of a module as well
_add_potential_module_stack_cmd_any(w, cmd) ==
    LET new_stack == update_sm_stack(w.sm_stack, cmd) IN
    IF ~new_stack.ok THEN [ok |-> FALSE, w |-> w]
    ELSE [ok |-> TRUE,
          w |-> [w EXCEPT
                   !._local_lemmas =
                       IF /\ Len(w.sm_stack) > 0
                          /\ Len(new_stack.stack) < Len(w.sm_stack)
                       THEN SelectSeq(@, LAMBDA l : ~l.is_section)
                       ELSE @,
                   !._module_changed =
                       @ \/ Len(new_stack.stack) # Len(w.sm_stack),
                   !.sm_stack = new_stack.stack]]

_add_potential_module_stack_cmd(w, cmd) ==
    LET new_stack == update_sm_stack(w.sm_stack, cmd) IN
    IF ~new_stack.ok THEN [ok |-> FALSE, w |-> w]
    ELSE [ok |-> TRUE,
          w |-> [w EXCEPT
                   !._local_lemmas =
                       IF /\ Len(w.sm_stack) > 0
                          /\ Last(w.sm_stack).is_section
                          /\ Len(new_stack.stack) < Len(w.sm_stack)
                       THEN SelectSeq(@, LAMBDA l : ~l.is_section)
                       ELSE @,
                   !._module_changed =
                       @ \/ Len(new_stack.stack) # Len(w.sm_stack),
                   !.sm_stack = new_stack.stack]]

\* lemma[len(self.module_prefix):] when lemma.startswith(self.module_prefix)
StripPrefix(prefix, lemma) ==
    IF Len(prefix) <= Len(lemma.pre) /\ SubSeq(lemma.pre, 1, Len(prefix)) = prefix
    THEN [lemma EXCEPT !.pre = SubSeq(@, Len(prefix) + 1, Len(@))]
    ELSE lemma

\* None
NoCache == [none |-> TRUE, items |-> <<>>]

_add_potential_local_lemmas(w, cmd) ==
    LET lemmas == _lemmas_defined_by_stmt(w.sm_stack, cmd)
        cached == [i \in 1..Len(lemmas) |->
                      StripPrefix(module_prefix(w.sm_stack), lemmas[i])]
    IN [w EXCEPT !._local_lemmas =
            @ \o [i \in 1..Len(lemmas) |->
                    [lemma |-> lemmas[i], is_section |-> LetIn(cmd)]],
                 !._local_lemmas_cache =
                    IF @.none THEN @ ELSE [@ EXCEPT !.items = @ \o cached]]

\* the property local_lemmas: [w, value]
local_lemmas(w) ==
    LET generate == [i \in 1..Len(w._local_lemmas) |->
                        StripPrefix(module_prefix(w.sm_stack),
                                    w._local_lemmas[i].lemma)]
        w1 == IF w._module_changed
              THEN [w EXCEPT !._local_lemmas_cache =
                                 [none |-> FALSE, items |-> generate],
                             !._module_changed = FALSE]
              ELSE w
    IN [w |-> w1, value |-> w1._local_lemmas_cache]

\* _remove_potential_local_lemmas with the Abort branch left out
_remove_potential_local_lemmas_keep(w, cmd) == [ok |-> TRUE, w |-> w]

\* Abort pops the last entry: [ok, w], ok FALSE for pop() on an empty list
_remove_potential_local_lemmas(w, cmd) ==
    IF cmd = "Abort."
    THEN IF w._local_lemmas = <<>> THEN [ok |-> FALSE, w |-> w]
         ELSE [ok |-> TRUE, w |-> [w EXCEPT !._local_lemmas = Front(@)]]
    ELSE [ok |-> TRUE, w |-> w]

RECURSIVE RemoveAll(_, _)
\* list.remove of each of xs in turn: [ok, s], ok FALSE when one is absent
RemoveAll(s, xs) ==
    IF xs = <<>> THEN [ok |-> TRUE, s |-> s]
    ELSE IF ~InSeq(s, Head(xs)) THEN [ok |-> FALSE, s |-> s]
    ELSE RemoveAll(RemoveFirst(s, Head(xs)), Tail(xs))

_cancel_potential_local_lemmas(w, cmd) ==
    LET lemmas == _lemmas_defined_by_stmt(w.sm_stack, cmd)
        r == RemoveAll(w._local_lemmas,
                       [i \in 1..Len(lemmas) |->
                           [lemma |-> lemmas[i], is_section |-> LetIn(cmd)]])
    IN [ok |-> r.ok, w |-> [w EXCEPT !._local_lemmas = r.s]]

\* _get_enter_goal_context keeping the first goal and dropping the others
_get_enter_goal_context_first(ctx) ==
    ProofContext(<<Head(ctx.fg)>>, ctx.bg, ctx.shelved, ctx.given_up)

_get_enter_goal_context(ctx) ==
    ProofContext(<<Head(ctx.fg)>>, ctx.bg \o Tail(ctx.fg), ctx.shelved, ctx.given_up)

\* the context after (Query () Goals) answered `reply`
_get_proof_context(ctx, reply, update_nonfg_goals) ==
    IF reply.none THEN NoCtx
    ELSE IF update_nonfg_goals \/ ctx.none THEN reply
    ELSE ProofContext(reply.fg, ctx.bg, reply.shelved, ctx.given_up)

\* _unset_printing_notations: an Add whose state is never Exec'd by itself
_unset_printing_notations(w) ==
    LET a == ProverAdd(w._proc, UnsetStmt)
    IN [w EXCEPT !._proc = a.p, !.prev_state = w.cur_state, !.cur_state = a.sid]

----------------------------------------------------------------------------
(* Observations of one public call, kept in w.obs *)

NoObs == [stmt |-> "", pre |-> <<>>, changed |-> {},
          raised |-> "none", msg |-> "", stage |-> "", accepted |-> FALSE,
          after_stmt |-> "", hung |-> FALSE, dead |-> FALSE,
          resets |-> 0, reset_log |-> <<>>, replayed |-> <<>>,
          reset_ctx |-> NoCtx, reset_ok |-> FALSE, cancels |-> <<>>,
          reply |-> [span_id |-> 0, canceled |-> <<>>],
          recovered |-> FALSE, settled |-> FALSE, after_failed |-> FALSE,
          ended |-> [stmt |-> "", stack |-> <<>>],
          query |-> "",
          cancel_raised |-> "none", log_before |-> <<>>,
          view |-> [none |-> TRUE, items |-> <<>>], args |-> <<>>,
          track |-> [phase |-> "none", base |-> 0, lemmas |-> <<>>],
          observation |-> NoCtx]

Hung(w) == [w EXCEPT !.obs.hung = TRUE]

----------------------------------------------------------------------------
(* kill, init, reset *)

RECURSIVE run_stmt(_, _, _)

\* what init() can meet: nothing, a command that cannot be started, an
\* include of _CoqProject the prover rejects, a hammer that does not load
InitFaults == {"none", "popen", "prelude", "hammer"}

\* subprocess.Popen: the next child, which self._proc now names
Popen(w) == [w EXCEPT !._proc = NewProc,
                      !.scope.spawned = @ + 1,
                      !.scope.live = @ \cup {w.scope.spawned + 1}]

\* kill(): the child self._proc names, the last one spawned, is terminated
kill(w) == [w EXCEPT !._proc.alive = FALSE,
                     !.scope.live = @ \ {w.scope.spawned}]

\* add_lib, add_lib_rec, add_ocaml_lib: the request is Added and Exec'd
\* unless the instance sent the same text before
add_lib_executed(w, addStm, sid, x) ==
    [w EXCEPT !._added_libs = @ \cup {addStm},
              !._proc = x.p,
              !.prev_state = w.cur_state,
              !.cur_state = sid]

add_lib_added(w, addStm, a) ==
    add_lib_executed(w, addStm, a.sid, ProverExec(a.p, a.sid))

add_lib(w, addStm) ==
    IF addStm \in w._added_libs THEN w
    ELSE add_lib_added(w, addStm, ProverAdd(w._proc, addStm))

RECURSIVE _exec_includes(_, _)
\* prelude(): the requests of the project's _CoqProject, one by one
_exec_includes(w, i) ==
    IF i > Len(w.includes) THEN w
    ELSE _exec_includes(add_lib(w, w.includes[i]), i + 1)

\* init(): a fresh child and a clean mirror, the module wrapper, the
\* notation setting.  _hist is not touched here: the wrapper's run_stmt
\* appends to whatever log the instance holds.
init(w, fault) ==
    LET w1 == [Popen(w) EXCEPT !.proof_context = NoCtx,
                               !.cur_state = 0,
                               !.tactic_history = TacticHistoryNew,
                               !._local_lemmas = <<>>,
                               !.sm_stack = <<>>]
        \* if self.use_hammer: self.init_hammer()
        Hammer(r) == IF r.exc = "none" /\ fault = "hammer"
                     THEN Raise(r.w, "CoqExn") ELSE r
        \* self._local_lemmas_cache = None; self._module_changed = True
        Cache(w2) == [w2 EXCEPT !._local_lemmas_cache = NoCache,
                                !._module_changed = TRUE]
        Notations(r) == IF r.exc # "none" THEN r
                        ELSE Hammer(Ret(Cache(_unset_printing_notations(r.w))))
        \* self.prelude(self.module_path, self.project_path)
        Prelude(r) == IF r.exc = "none" /\ fault = "prelude"
                      THEN Raise(r.w, "CoqExn")
                      ELSE IF r.exc # "none" THEN r
                      ELSE Notations(Ret(_exec_includes(r.w, 1)))
    IN IF fault = "popen" THEN Raise(w, "FileNotFoundError")
       ELSE Prelude(IF w.wrap THEN run_stmt(w1, WrapperStmt, "none") ELSE Ret(w1))

RECURSIVE Replay(_, _, _)
\* for stm, not_failed, state in hist: self.run_stmt(stm)
Replay(w, hist, i) ==
    LET Rest(r) == IF r.exc # "none" THEN r ELSE Replay(r.w, hist, i + 1)
    IN IF i > Len(hist) THEN Ret([w EXCEPT !.obs.reset_ok = TRUE])
       ELSE Rest(run_stmt([w EXCEPT !.obs.replayed = Append(@, hist[i].stmt)],
                          hist[i].stmt, "none"))

\* self._hist = []; for stm, not_failed, state in hist: self.run_stmt(stm)
reset_replay(i, hist) ==
    IF i.exc # "none" THEN i
    ELSE Replay([i.w EXCEPT !._hist = <<>>], hist, 1)

reset(w) ==
    reset_replay(init(kill([w EXCEPT !._n_resets = @ + 1,
                                     !.obs.resets = @ + 1,
                                     !.obs.reset_log = w._hist,
                                     !.obs.reset_ctx = w.proof_context,
                                     !.obs.replayed = <<>>,
                                     !.obs.reset_ok = FALSE]), "none"),
                 w._hist)

----------------------------------------------------------------------------
(* CoqEnv: the subclass overrides reset(), so that self.reset() inside the *)
(* driver's methods runs CoqEnv.reset on an instance of CoqEnv             *)

\* frames of CoqEnv.reset the interpreter's stack holds before a call of
\* reset() ends with RecursionError
MaxFrames == 3

\* self.proof_search_id is None
NoSearch == [none |-> TRUE, id |-> 0]

\* a plain SerapiInstance
NoEnv == [is_env |-> FALSE, coq_commands |-> <<>>, proof_search_id |-> NoSearch,
          frames |-> 0]

RECURSIVE env_reset(_, _)
RECURSIVE env_run_next(_, _)
RECURSIVE env_cancel_next(_)

\* self.reset(): the method of the instance's class
self_reset(w) == IF w.env.is_env THEN env_reset(w, "none") ELSE reset(w)

----------------------------------------------------------------------------
(* __cancel, cancel_failed, cancel_last *)

SeqMin(ids) == CHOOSE m \in {ids[i] : i \in 1..Len(ids)} :
                   \A i \in 1..Len(ids) : m <= ids[i]

\* _get_cancelled returning cancelled_statenum, the least id of the Canceled
\* answer, in place of new_statenum
_get_cancelled_least(w, c) == SeqMin(c.canceled)

\* _get_cancelled falling back on the state before the last Add
_get_cancelled_prev(w, c) == w.prev_state

\* the value _get_cancelled returns for a well-formed reply: new_statenum,
\* the span_id of the Feedback; min(statenums) of the Canceled answer is
\* computed and dropped
_get_cancelled(w, c) == c.span_id

\* the try block of __cancel: [w, exc]
cancel_try(w, fault) ==
    LET cancelled_state == w.cur_state
        context_before == w.proof_context
        \* if self._hist[-1][-1] == cancelled_state: self._hist = self._hist[:-1]
        Log(w3) ==
            IF w3._hist = <<>> THEN Raise(w3, "IndexError")
            ELSE IF Last(w3._hist).sid = cancelled_state THEN Ret(TrimHist(w3))
            ELSE Ret(w3)
        Removed(w2, rm) ==
            IF ~rm.ok THEN Raise(w2, "AssertionError")
            ELSE Log([w2 EXCEPT !.tactic_history = rm.th])
        \* if tactic_history and tactic_history[-1][1] == cancelled_state
        History(w2, cur) ==
            IF cur # <<>> /\ Last(cur).sid = cancelled_state
            THEN IF context_before.none
                 THEN Raise(w2, "AttributeError")            \* None.fg_goals
                 ELSE Removed(w2, removeLast(w2.tactic_history, context_before.fg))
            ELSE Log(w2)
        Context(w2) ==
            IF ~PathOK(w2.tactic_history.tree, w2.tactic_history.depth)
            THEN Raise(w2, "AssertionError")
            ELSE History(w2, getCurrentHistory(w2.tactic_history))
        Cancelled(w1, c) ==
            IF ~c.ok THEN Raise(w1, "CoqExn")                \* _get_cancelled
            ELSE Context([w1 EXCEPT !._proc = c.p,
                                    !.cur_state = _get_cancelled(w1, c),
                                    !.proof_context =
                                        _get_proof_context(w1.proof_context,
                                                           ProverGoals(c.p), TRUE)])
        Replied(w1, c) ==
            Cancelled([w1 EXCEPT !.obs.reply = [span_id |-> c.span_id,
                                                canceled |-> c.canceled]], c)
    IN
    IF ~w._proc.alive THEN Raise(w, "CoqAnomaly")            \* _send_flush
    ELSE IF fault = "hang_cancel" THEN Raise(Hung(w), "CoqAnomaly")
    ELSE Replied([w EXCEPT !.obs.cancels = Append(@, cancelled_state)],
                 ProverCancel(w._proc, cancelled_state))

\* except Exception as e: what the try block raised is observed
cancel_caught(r) == [r.w EXCEPT !.obs.cancel_raised = r.exc]

\* the except clause of __cancel
cancel_except(w, r) ==
    IF r.exc = "none" THEN r
    ELSE IF w.reset_on_cancel_fail THEN self_reset(TrimHist(cancel_caught(r)))
    ELSE Raise(cancel_caught(r), r.exc)

__cancel(w, fault) == cancel_except(w, cancel_try(w, fault))

cancel_failed(w, fault) ==
    IF w._hist = <<>> THEN Raise(w, "IndexError")
    ELSE IF Last(w._hist).sid = w.cur_state /\ Last(w._hist).ok = "True" THEN Ret(w)
    ELSE __cancel(w, fault)

\* if self.proof_context and self.tactic_history.getFullHistory()
cancel_in_history(w) ==
    ~w.proof_context.none /\ FullHistoryNonEmpty(w.tactic_history)

\* after __cancel: the history is checked against the context, or emptied
cancel_checked(r) ==
    IF r.exc # "none" THEN r
    ELSE IF r.w.proof_context.none
         THEN IF FullHistoryNonEmpty(r.w.tactic_history)
              THEN Raise(r.w, "AssertionError")      \* "History is desynced!"
              ELSE Ret([r.w EXCEPT !.tactic_history = TacticHistoryNew])
         ELSE r

\* self.__cancel(), once the lemmas of the cancelled command are dropped
cancel_lemmas(lm, fault) ==
    IF ~lm.ok THEN Raise(lm.w, "ValueError")
    ELSE cancel_checked(__cancel(lm.w, fault))

\* cancelled = self.tactic_history.getNextCancelled()
cancel_next(w, nc, fault) ==
    IF cancel_in_history(w) /\ ~nc.ok THEN Raise(w, "AssertionError")
    ELSE cancel_lemmas(IF cancel_in_history(w)
                       THEN _cancel_potential_local_lemmas(w, nc.text)
                       ELSE [ok |-> TRUE, w |-> w], fault)

cancel_last(w, fault) == cancel_next(w, getNextCancelled(w.tactic_history), fault)

----------------------------------------------------------------------------
(* run_stmt *)

\* the CoqExn texts that _handle_exception tells apart
ParseMsgs == {"Stream.Error", "Syntax error", "Syntax Error"}
OverflowMsgs == {"Overflowed", "Stack overflow"}

\* what the branch of _handle_exception for the message does, in the order of
\* the source: self._get_completed() (a wait), self.cur_state = self.prev_state,
\* self.cancel_failed(), and the exception it raises
Branch(drain, restore, cancel, raise) ==
    [drain |-> drain, restore |-> restore, cancel |-> cancel, raise |-> raise]

HandlerBranch(e) ==
    IF e.type = "TimeoutError" THEN Branch(FALSE, FALSE, TRUE, "TimeoutError")
    ELSE IF e.msg = "" THEN Branch(FALSE, FALSE, FALSE, "UnrecognizedError")
    ELSE CASE e.msg \in ParseMsgs -> Branch(TRUE, TRUE, FALSE, "ParseError")
           [] e.msg = "CLexer.Error" -> Branch(TRUE, FALSE, FALSE, "ParseError")
           [] e.msg = "NoSuchGoals" -> Branch(TRUE, FALSE, TRUE, "NoSuchGoalError")
           [] e.msg = "Invalid_argument" -> Branch(FALSE, FALSE, FALSE, "ParseError")
           [] e.msg = "Not_found" -> Branch(TRUE, FALSE, TRUE, e.type)
           [] e.msg \in OverflowMsgs -> Branch(TRUE, FALSE, FALSE, "CoqAnomaly")
           [] e.msg = "Anomaly" -> Branch(TRUE, FALSE, FALSE, "CoqAnomaly")
           [] e.msg = "Unable to unify" -> Branch(TRUE, FALSE, TRUE, "CoqExn")
           [] e.msg = "The identifier is reserved." ->
                Branch(TRUE, FALSE, FALSE, "CoqExn")
           [] OTHER -> Branch(TRUE, FALSE, TRUE, "CoqExn")

\* the exceptions raised here leave run_stmt: they are raised inside its
\* except clause, where the clause for CoqAnomaly does not apply
\* raise the typed error once cancel_failed is back
handle_raised(c, b) ==
    IF c.exc # "none" THEN c
    ELSE Raise([c.w EXCEPT !.obs.recovered = TRUE], b.raise)

\* the branch of _handle_exception that the exception selects
handle_branch(w1, b, fault) ==
    IF b.drain /\ fault = "hang_drain"
    THEN Raise(Hung(w1), "CoqAnomaly")   \* _get_completed times out
    ELSE IF b.cancel THEN handle_raised(cancel_failed(w1, fault), b)
    ELSE IF b.restore
         THEN Raise([w1 EXCEPT !.cur_state = w1.prev_state], b.raise)
         ELSE Raise(w1, b.raise)

_handle_exception(w, e, fault) ==
    handle_branch(IF Last(w._hist).ok # "True" THEN TrimHist(w) ELSE w,
                  HandlerBranch(e), fault)

\* the mirror updates after a successful Exec: the local lemmas, the tactic
\* history, the log entry.  ctx is the refreshed context.
\* self._hist[-1] = [stmt, True, cur_state], once the history took the statement
mirror_logged(w2, h, sid) ==
    IF ~h.ok THEN Exn(w2, "AssertionError", "", "exec")
    ELSE Exn([w2 EXCEPT !.tactic_history = h.th,
                        !._hist[Len(w2._hist)] =
                            HistEntry(w2._hist[Len(w2._hist)].stmt, "True", sid)],
             "none", "", "exec")

\* the tactic history th after the statement: [ok, th]
mirror_history(th, stm, context_before, ctx, sid) ==
    IF possibly_starting_proof(stm) /\ ~ctx.none
    THEN addTactic(th, stm, sid)
    ELSE IF is_goal_open(stm)
    THEN IF context_before.none THEN [ok |-> FALSE, th |-> th]
         ELSE openSubgoal(th, Tail(context_before.fg))
    ELSE IF is_goal_close(stm) THEN closeSubgoal(th)
    ELSE IF ~ctx.none THEN addTactic(th, stm, sid)
    ELSE [ok |-> TRUE, th |-> th]

\* the lemma registry is settled: w2 is the instance, th the history to extend
mirror_tactics(w2, th, stm, context_before, ctx, sid) ==
    mirror_logged(w2, mirror_history(th, stm, context_before, ctx, sid), sid)

\* the statement left the proof: the registry lost what it had to, or raised;
\* self.tactic_history = TacticHistory()
mirror_left(r) ==
    [ok |-> r.ok,
     w |-> IF r.ok THEN [r.w EXCEPT !.tactic_history = TacticHistoryNew] ELSE r.w,
     th |-> TacticHistoryNew]

\* the registry after the statement: [ok, w, th], th the history to extend
mirror_lemmas(wc, stm, context_before, ctx) ==
    IF context_before.none /\ ~ctx.none
    THEN [ok |-> TRUE, w |-> _add_potential_local_lemmas(wc, stm),
          th |-> wc.tactic_history]
    ELSE IF ctx.none
    THEN mirror_left(_remove_potential_local_lemmas(wc, stm))
    ELSE [ok |-> TRUE, w |-> wc, th |-> wc.tactic_history]

mirror_settled(l, stm, context_before, ctx, sid) ==
    IF ~l.ok THEN Exn(l.w, "IndexError", "", "exec")
    ELSE mirror_tactics(l.w, l.th, stm, context_before, ctx, sid)

update_mirror(w, stm, context_before, ctx) ==
    mirror_settled(mirror_lemmas([w EXCEPT !.proof_context = ctx],
                                 stm, context_before, ctx),
                   stm, context_before, ctx, w.cur_state)

\* the refreshed context, then the mirror
body_goals(w4, stm, context_before) ==
    IF is_goal_open(stm) /\ w4.proof_context.none
    THEN Exn(w4, "AssertionError", "", "exec")
    ELSE update_mirror(w4, stm, context_before,
             IF is_goal_open(stm)
             THEN _get_enter_goal_context(w4.proof_context)
             ELSE _get_proof_context(w4.proof_context, ProverGoals(w4._proc),
                                     is_goal_close(stm) \/ is_unshelve(stm)))

\* (Exec cur_state) answered x
body_executed(w3, x, stm, context_before, fault) ==
    IF fault = "slow_exec"
    THEN \* interrupted: the sentence stays in the document, failed
         Exn([w3 EXCEPT !._proc.doc[Len(w3._proc.doc)] =
                            [@ EXCEPT !.exec = TRUE, !.bad = "Sys.Break"]],
             "TimeoutError", "", "exec")
    ELSE IF fault = "garble_exec"
    THEN Exn([w3 EXCEPT !._proc = x.p], "CoqAnomaly", "", "exec")
    ELSE IF x.err # ""
    THEN Exn([w3 EXCEPT !._proc = x.p], "CoqExn", x.err, "exec")
    ELSE body_goals([w3 EXCEPT !._proc = x.p], stm, context_before)

\* (Add () stm) answered a; _update_state; the Exec is sent and acked
body_added(w1, a, stm, context_before, fault) ==
    IF fault = "garble_add"
    THEN Exn([w1 EXCEPT !._proc = a.p, !.prev_state = w1.cur_state],
             "CoqAnomaly", "", "add")
    ELSE IF ~a.added
    THEN Exn([w1 EXCEPT !._proc = a.p, !.prev_state = w1.cur_state],
             "CoqExn", a.err, "add")
    ELSE body_executed([w1 EXCEPT !._proc = a.p,
                                  !.prev_state = w1.cur_state,
                                  !.cur_state = a.sid,
                                  !._hist[Len(w1._hist)].ok = "False"],
                       ProverExec(a.p, a.sid), stm, context_before, fault)

\* self._add_potential_module_stack_cmd(stm) answered sm; the Add is sent
body_sent(w, sm, stm, context_before, fault) ==
    IF ~sm.ok
    THEN \* assert False, f"... {new_stack[-1]}": the message indexes the stack
         Exn(w, IF w.sm_stack = <<>> THEN "IndexError" ELSE "AssertionError",
             "", "add")
    ELSE IF ~sm.w._proc.alive
    THEN Exn(sm.w, "CoqAnomaly", "Coq process unexpectedly quit", "add")
    ELSE IF fault = "hang"
    THEN Exn(Hung(sm.w), "CoqAnomaly", "Timing Out", "add")
    ELSE IF fault = "slow_add"
    THEN \* the wait for the answer to Add is interrupted: nothing Added
         Exn(sm.w, "TimeoutError", "", "add")
    ELSE body_added(sm.w, ProverAdd(sm.w._proc, stm), stm, context_before, fault)

\* the try block of run_stmt for the one statement preprocess_command yields
run_body(w, stm, context_before, fault) ==
    body_sent(w, _add_potential_module_stack_cmd(w, stm), stm, context_before, fault)

HandledExns == {"CoqExn", "BadResponse", "AckError", "CompletedError", "TimeoutError"}

\* 'timing out' in str(e).lower()
TimingOut(msg) == msg \in {"Timing Out", "Timing out"}

\* the log with the statement appended as pending, as the try block finds it
Pending(w, stmt) == [w EXCEPT !._hist = Append(@, HistEntry(stmt, "None", -1))]

\* self.reset(); raise CoqAnomaly(...)
run_stmt_reset(r) == IF r.exc # "none" THEN r ELSE Raise(r.w, "CoqAnomaly")

\* the except clauses of run_stmt
run_stmt_except(b, fault) ==
    IF b.type = "none" THEN Ret(b.w)
    ELSE IF b.type \in HandledExns THEN _handle_exception(b.w, b, fault)
    ELSE IF b.type = "CoqAnomaly"
    THEN IF TimingOut(b.msg) /\ Last(b.w._hist).ok # "True"
         THEN run_stmt_reset(self_reset(TrimHist(b.w)))
         ELSE Ret(b.w)      \* no branch re-raises: the call returns
    ELSE Raise(b.w, b.type)

run_stmt(w, stmt, fault) ==
    run_stmt_except(run_body(Pending(w, stmt), stmt, w.proof_context, fault), fault)

----------------------------------------------------------------------------
(* CoqEnv.reset *)

RECURSIVE env_run_commands(_, _)
\* for cmd in self.coq_commands: self.run_stmt(cmd)
env_run_commands(w, i) ==
    IF i > Len(w.env.coq_commands) THEN Ret(w)
    ELSE env_run_next(run_stmt(w, w.env.coq_commands[i], "none"), i)

\* the loop goes on unless the statement raised
env_run_next(r, i) == IF r.exc # "none" THEN r ELSE env_run_commands(r.w, i + 1)

RECURSIVE env_cancel_loop(_, _)
\* while self.cur_state > self.proof_search_id: self.cancel_last()
env_cancel_loop(w, fault) ==
    IF w.cur_state > w.env.proof_search_id.id
    THEN env_cancel_next(cancel_last(w, fault))
    ELSE Ret(w)

\* the loop goes on unless cancel_last raised
env_cancel_next(r) == IF r.exc # "none" THEN r ELSE env_cancel_loop(r.w, "none")

\* observation = self.proof_context; return observation
env_observe(w) == Ret([w EXCEPT !.obs.observation = w.proof_context])

\* self.proof_search_id = self.cur_state
env_mark(r) ==
    IF r.exc # "none" THEN r
    ELSE env_observe([r.w EXCEPT !.env.proof_search_id =
                                     [none |-> FALSE, id |-> r.w.cur_state]])

\* self.proof_search_id = None; return self.reset()
env_restarted(i) ==
    IF i.exc # "none" THEN i
    ELSE env_reset([i.w EXCEPT !.env.proof_search_id = NoSearch], "none")

\* if self.cur_state != self.proof_search_id: self.kill(); self.init(); ...
env_check(r) ==
    IF r.exc # "none" THEN r
    ELSE IF r.w.cur_state # r.w.env.proof_search_id.id
         THEN env_restarted(init(kill(r.w), "none"))
         ELSE env_observe(r.w)

\* the frame of reset() is popped, whether it returns or raises
env_leave(r) == [r EXCEPT !.w.env.frames = @ - 1]

\* the body of CoqEnv.reset() in a new frame
env_frame(w, fault) ==
    IF w.env.proof_search_id.none THEN env_mark(env_run_commands(w, 1))
    ELSE env_check(env_cancel_loop(w, fault))

\* CoqEnv.reset(): [w, exc]; the observation it returns is in w.obs.  The
\* fault is what the first cancel_last of this frame meets.
env_reset(w, fault) ==
    IF w.env.frames >= MaxFrames THEN Raise(w, "RecursionError")
    ELSE env_leave(env_frame([w EXCEPT !.env.frames = @ + 1], fault))

----------------------------------------------------------------------------
(* The queries: one request, the messages of its answer read and matched.  *)
(* None of them has an except clause of its own, and none assigns a field  *)
(* of the mirror.                                                          *)

QueryOps == {"check_term", "query_qualid", "query_definition",
             "query_assumptions", "search_about", "_query_vernac"}

\* what the prover and the pipe do to a query: answer it, be found dead, send
\* nothing (for good, or until interrupted), send an ill-formed line, answer
\* CoqExn, answer with a message of another shape than the one matched
QueryFaults == {"none", "die", "hang", "slow", "garble", "coqexn", "odd"}

\* the exception a query ends with when the prover answers CoqExn
\* ("none": the query returns None or an empty list)
OnCoqExn(q) ==
    CASE q = "check_term" -> "UnrecognizedError"
      [] q = "query_qualid" -> "ValueError"
      [] OTHER -> "none"

\* the exception a query ends with on a message it does not match
OnOddMessage(q) ==
    CASE q = "check_term" -> "UnrecognizedError"
      [] q = "query_qualid" -> "ValueError"
      [] q = "query_definition" -> "CoqAnomaly"      \* reads on until the timeout
      [] q = "query_assumptions" -> "AttributeError"  \* re.match(...) is None
      [] q = "_query_vernac" -> "CoqExn"
      [] OTHER -> "CompletedError"                    \* search_about

\* a query that re-reads the goals once it is answered
query_refreshing(w, q, fault) ==
    IF ~w._proc.alive \/ fault # "none" THEN Raise(w, "CoqAnomaly")
    ELSE Ret([w EXCEPT !.proof_context =
                 _get_proof_context(w.proof_context, ProverGoals(w._proc), TRUE)])

\* [w, exc]
query(w, q, fault) ==
    IF ~w._proc.alive THEN Raise(w, "CoqAnomaly")                  \* _send_flush
    ELSE CASE fault = "hang" -> Raise(Hung(w), "CoqAnomaly")       \* "Timing Out"
           [] fault = "slow" -> Raise(w, "TimeoutError")
           [] fault = "garble" -> Raise(w, "CoqAnomaly")
           [] fault = "coqexn" -> Raise(w, OnCoqExn(q))
           [] fault = "odd" -> Raise(w, OnOddMessage(q))
           [] OTHER -> Ret(w)

----------------------------------------------------------------------------
(* The state machine: the public calls, and the child dying *)

\* what the environment does to a call: nothing, the child is found dead, a
\* wait times out, a message arrives ill-formed, the Exec is slow
RunFaults == {"none", "die", "hang", "garble_add", "garble_exec", "slow_add",
              "slow_exec", "hang_drain", "hang_cancel"}
CancelFaults == {"none", "die", "hang_cancel"}

World == [cur_state |-> cur_state, prev_state |-> prev_state,
          proof_context |-> proof_context, tactic_history |-> tactic_history,
          sm_stack |-> sm_stack, _local_lemmas |-> _local_lemmas,
          _local_lemmas_cache |-> _local_lemmas_cache,
          _module_changed |-> _module_changed,
          _added_libs |-> _added_libs, includes |-> includes,
          env |-> env,
          _hist |-> _hist, _n_resets |-> _n_resets, _proc |-> _proc,
          reset_on_cancel_fail |-> reset_on_cancel_fail, wrap |-> wrap,
          scope |-> scope, obs |-> NoObs]

MirrorFields == {"cur_state", "proof_context", "tactic_history", "sm_stack",
                 "_local_lemmas", "_hist"}
Mirror(w) == [f \in MirrorFields |-> w[f]]
Changed(m, w) == {f \in MirrorFields : m[f] # w[f]}

\* no child yet
NoProc == [NewProc EXCEPT !.alive = FALSE]

\* SerapiInstance.__init__ before it calls init(): an empty log, no child
Fresh(rf, wr, at) ==
    [cur_state |-> 0, prev_state |-> 0, proof_context |-> NoCtx,
     tactic_history |-> TacticHistoryNew, sm_stack |-> <<>>,
     _local_lemmas |-> <<>>, _local_lemmas_cache |-> NoCache,
     _module_changed |-> TRUE, _added_libs |-> {}, includes |-> <<>>,
     env |-> NoEnv,
     _hist |-> <<>>, _n_resets |-> 0,
     _proc |-> NoProc, reset_on_cancel_fail |-> rf, wrap |-> wr,
     scope |-> [at |-> at, spawned |-> 0, live |-> {}],
     obs |-> NoObs]

\* the state after SerapiInstance.__init__: an empty log, then init()
Constructed(rf, wr) == init(Fresh(rf, wr, "body"), "none").w

\* no text function is under study
NoText == [string |-> <<>>, before |-> <<>>, applied |-> 0]

\* the variables hold the instance w
BuiltAs(w) ==
    /\ cur_state = w.cur_state
    /\ prev_state = w.prev_state
    /\ proof_context = w.proof_context
    /\ tactic_history = w.tactic_history
    /\ sm_stack = w.sm_stack
    /\ _local_lemmas = w._local_lemmas
    /\ _local_lemmas_cache = w._local_lemmas_cache
    /\ _module_changed = w._module_changed
    /\ _added_libs = w._added_libs
    /\ includes = w.includes
    /\ env = w.env
    /\ _hist = w._hist
    /\ _n_resets = w._n_resets
    /\ _proc = w._proc
    /\ reset_on_cancel_fail = w.reset_on_cancel_fail
    /\ wrap = w.wrap
    /\ scope = w.scope
    /\ op = "init"
    /\ exc = "none"
    /\ obs = NoObs
    /\ faults = 0

Built(rf, wr) == BuiltAs(Constructed(rf, wr))

\* the threads and the queue are not followed
NoIO == [main |-> "none"]

Init ==
    /\ \E rf \in BOOLEAN, wr \in BOOLEAN : Built(rf, wr)
    /\ arg = NoText
    /\ io = NoIO

\* the variables take the world a call left
Commit(w) ==
    /\ cur_state' = w.cur_state
    /\ prev_state' = w.prev_state
    /\ proof_context' = w.proof_context
    /\ tactic_history' = w.tactic_history
    /\ sm_stack' = w.sm_stack
    /\ _local_lemmas' = w._local_lemmas
    /\ _local_lemmas_cache' = w._local_lemmas_cache
    /\ _module_changed' = w._module_changed
    /\ _added_libs' = w._added_libs
    /\ _hist' = w._hist
    /\ _n_resets' = w._n_resets
    /\ _proc' = w._proc
    /\ env' = w.env
    /\ scope' = w.scope
    /\ UNCHANGED <<reset_on_cancel_fail, wrap, includes, arg, io>>

Bounded ==
    /\ Len(_hist) < MaxHist + (IF wrap THEN 1 ELSE 0)
    /\ _proc.next < (IF wrap THEN 4 ELSE 3) + MaxAdds
    /\ _n_resets < MaxResets

\* the last call was a run_stmt that returned with its statement accepted
LastAccepted == op = "run_stmt" /\ exc = "none" /\ obs.accepted

\* the world a call starts in
Entered(fault) ==
    IF fault = "die" THEN [World EXCEPT !._proc.alive = FALSE] ELSE World

\* calls that hit an error are counted, and bounded
Count(failed) ==
    /\ failed => faults < MaxFaults
    /\ faults' = IF failed THEN faults + 1 ELSE faults

\* A proof followed from its start to its end and back: "in" after an
\* accepted statement opened a proof from cur_state = base, "left" once an
\* accepted statement closed it, "back" while cancel_last undoes it, "undone"
\* when a cancel_last ends outside a proof again, "failed" when one raised.
\* Only calls that met no error are followed.
TrackRun(t, before, after, clean) ==
    IF ~clean THEN NoObs.track
    ELSE IF before.proof_context.none /\ ~after.proof_context.none
    THEN [phase |-> "in", base |-> before.cur_state,
          lemmas |-> before._local_lemmas]
    ELSE IF t.phase = "in"
    THEN [t EXCEPT !.phase = IF after.proof_context.none THEN "left" ELSE "in"]
    ELSE NoObs.track

TrackCancel(t, r, clean) ==
    IF ~clean \/ t.phase \notin {"left", "back"} THEN NoObs.track
    ELSE IF r.exc # "none" THEN [t EXCEPT !.phase = "failed"]
    ELSE IF t.phase = "back" /\ r.w.proof_context.none
    THEN [t EXCEPT !.phase = "undone"]
    ELSE [t EXCEPT !.phase = "back"]

RunStmtCall(stmt, fault) ==
    LET w == Entered(fault)
        Done(b, r) ==
            /\ Count(fault # "none" \/ r.exc # "none" \/ b.type # "none")
            /\ Commit(r.w)
            /\ op' = "run_stmt"
            /\ exc' = r.exc
            /\ obs' = [r.w.obs EXCEPT
                          !.stmt = IF r.exc = "none" /\ b.type = "none"
                                   THEN stmt ELSE "",
                          !.pre = IF r.exc = "none" /\ b.type = "none"
                                  THEN Mirror(w) ELSE <<>>,
                          !.changed = Changed(Mirror(w), r.w),
                          !.raised = b.type,
                          !.msg = b.msg,
                          !.stage = b.stage,
                          !.accepted = r.exc = "none" /\ b.type = "none",
                          !.dead = ~w._proc.alive,
                          !.log_before = IF r.w.obs.cancel_raised # "none"
                                         THEN w._hist ELSE <<>>,
                          !.ended = IF stmt \in {"End M.", "End S."}
                                    THEN [stmt |-> stmt, stack |-> w.sm_stack]
                                    ELSE NoObs.ended,
                          !.track = TrackRun(obs.track, w, r.w,
                                        faults = 0 /\ fault = "none"
                                        /\ r.exc = "none" /\ b.type = "none")]
    IN /\ fault # "none" => faults < MaxFaults
       /\ Done(run_body(Pending(w, stmt), stmt, w.proof_context, fault),
               run_stmt(w, stmt, fault))

RunStmt(stmt, fault) == Bounded /\ RunStmtCall(stmt, fault)

CancelLast(fault) ==
    LET w == Entered(fault)
        Done(r) ==
            /\ Count(fault # "none" \/ r.exc # "none")
            /\ Commit(r.w)
            /\ op' = "cancel_last"
            /\ exc' = r.exc
            /\ obs' = [r.w.obs EXCEPT
                          !.after_stmt = IF LastAccepted THEN obs.stmt ELSE "",
                          !.changed = IF LastAccepted THEN Changed(obs.pre, r.w)
                                      ELSE {},
                          !.dead = ~w._proc.alive,
                          !.track = TrackCancel(obs.track, r,
                                        faults = 0 /\ fault = "none")]
    IN /\ _n_resets < MaxResets
       /\ fault # "none" => faults < MaxFaults
       /\ Done(cancel_last(w, fault))

\* cancel_failed() called by the user
CancelFailed ==
    LET Done(r) ==
            /\ Count(r.exc # "none")
            /\ Commit(r.w)
            /\ op' = "cancel_failed"
            /\ exc' = r.exc
            /\ obs' = [r.w.obs EXCEPT
                          !.changed = Changed(Mirror(World), r.w),
                          !.settled = /\ _hist # <<>>
                                      /\ Last(_hist).ok = "True"
                                      /\ Last(_hist).sid = cur_state,
                          !.after_failed = /\ op = "run_stmt"
                                           /\ exc # "none"
                                           /\ obs.recovered]
    IN /\ _n_resets < MaxResets
       /\ Done(cancel_failed(World, "none"))

\* reset() called by the user
ResetCall ==
    LET Done(r) ==
            /\ Commit(r.w)
            /\ op' = "reset"
            /\ exc' = r.exc
            /\ obs' = r.w.obs
            /\ UNCHANGED faults
    IN /\ _n_resets < MaxResets
       /\ Done(reset(World))

Next ==
    \/ \E stmt \in Stmts, fault \in RunFaults : RunStmt(stmt, fault)
    \/ \E fault \in CancelFaults : CancelLast(fault)
    \/ ResetCall

Spec == Init /\ [][Next]_vars

\* the calls of a client that also uses the recovery call, on a prover that
\* answers every request: the only errors are those of the statements
RecoveryNext ==
    \/ \E stmt \in Stmts : RunStmt(stmt, "none")
    \/ CancelLast("none")
    \/ CancelFailed
    \/ ResetCall

RecoverySpec == Init /\ [][RecoveryNext]_vars

\* a script of vernacular run statement by statement on a prover that
\* answers every request: sections, modules, lemmas and their proofs
ScriptStmts == {"Section S.", "End S.", "Module M.", "End M.", "Lemma l.",
                "Let x.", "Admitted.", "Abort."}

ScriptRun(stmt) ==
    /\ Len(_hist) < MaxScript + (IF wrap THEN 1 ELSE 0)
    /\ RunStmtCall(stmt, "none")

ScriptNext == \E stmt \in ScriptStmts : ScriptRun(stmt)

ScriptSpec == Init /\ [][ScriptNext]_vars

\* a proof script run and undone statement by statement on a prover that
\* answers every request
ProofStmts == {"Lemma l.", "split.", "easy.", "admit.", "{", "2: {", "}",
               "Qed.", "Abort."}

\* an instance built without a module wrapper
ProofInit ==
    /\ \E rf \in BOOLEAN : Built(rf, FALSE)
    /\ arg = NoText
    /\ io = NoIO

ProofBounded ==
    /\ Len(_hist) < MaxProof
    /\ _proc.next < 3 + MaxProofAdds

ProofRun(stmt) == ProofBounded /\ RunStmtCall(stmt, "none")

ProofNext ==
    \/ \E stmt \in ProofStmts : ProofRun(stmt)
    \/ CancelLast("none")

ProofSpec == ProofInit /\ [][ProofNext]_vars

\* lemmas opened, proved, aborted and undone inside and outside a module, on
\* a prover that answers every request
RegistryStmts == {"Lemma l.", "Derive d.", "split.", "Admitted.", "Abort.",
                  "Module M.", "End M."}

RegistryBounded == Len(_hist) < MaxRegistry /\ _proc.next < 3 + MaxRegistryAdds

RegistryRun(stmt) == RegistryBounded /\ RunStmtCall(stmt, "none")

\* the caller reads coq.local_lemmas
LocalLemmas ==
    LET r == local_lemmas(World) IN
    /\ Commit(r.w)
    /\ op' = "local_lemmas"
    /\ exc' = "none"
    /\ obs' = [NoObs EXCEPT !.view = r.value]
    /\ UNCHANGED faults

RegistryNext ==
    \/ \E stmt \in RegistryStmts : RegistryRun(stmt)
    \/ CancelLast("none")
    \/ LocalLemmas

\* an instance built without a module wrapper, nothing read yet
RegistryInit ==
    /\ Built(FALSE, FALSE)
    /\ arg = NoText
    /\ io = NoIO

RegistrySpec == RegistryInit /\ [][RegistryNext]_vars

\* an instance of a project whose _CoqProject asks for load paths, the same
\* one twice at times; statements are run and the instance is reset
LoadPaths == {"Add Rec LoadPath \"./theories\" as T.", "Add LoadPath \"./lib\" as L."}

Includes == UNION {[1..n -> LoadPaths] : n \in 0..MaxIncludes}

PreludeInit ==
    /\ \E inc \in Includes :
         BuiltAs(init([Fresh(TRUE, FALSE, "body") EXCEPT !.includes = inc],
                      "none").w)
    /\ arg = NoText
    /\ io = NoIO

PreludeRun(stmt) ==
    /\ Len(_hist) < MaxHist
    /\ RunStmtCall(stmt, "none")

PreludeNext ==
    \/ \E stmt \in {"Lemma l.", "split.", "Admitted."} : PreludeRun(stmt)
    \/ ResetCall

PreludeSpec == PreludeInit /\ [][PreludeNext]_vars

----------------------------------------------------------------------------
(* CoqEnv: an environment built for a theorem, stepped and reset *)

\* coq_commands: what precedes the theorem, and the theorem itself last
EnvCommands == {<<"Lemma l.">>, <<"Section S.", "Lemma l.">>}

\* the tactics an agent tries
EnvActions == {"split.", "easy.", "{", "apply nonsense."}

SerapiExceptions == {"AckError", "CompletedError", "CoqExn", "BadResponse",
                     "NotInProof", "ParseError", "LexError", "TimeoutError",
                     "OverflowError", "UnrecognizedError", "NoSuchGoalError",
                     "CoqAnomaly"}

\* CoqEnv.__init__: SerapiInstance.__init__ on dummy.v, whose stem names the
\* module wrapper, with reset_on_cancel_fail left at its default; then
\* self.proof_search_id = None
EnvInit ==
    /\ \E cmds \in EnvCommands :
         BuiltAs([init([Fresh(TRUE, TRUE, "body") EXCEPT
                            !.env = [NoEnv EXCEPT !.is_env = TRUE,
                                                  !.coq_commands = cmds]],
                       "none").w
                  EXCEPT !.env.proof_search_id = NoSearch])
    /\ arg = NoText
    /\ io = NoIO

EnvBounded ==
    /\ Len(_hist) < MaxEnvSteps + 1 + Len(env.coq_commands)
    /\ _proc.next < 4 + Len(env.coq_commands) + MaxEnvSteps + 1
    /\ scope.spawned < 1 + MaxResets

\* step(action): run_stmt, a SerapiException is reported in info
EnvStep(action) ==
    LET Done(r) ==
            /\ Commit(r.w)
            /\ op' = "step"
            /\ exc' = IF r.exc \in SerapiExceptions THEN "none" ELSE r.exc
            /\ obs' = [r.w.obs EXCEPT !.raised = r.exc]
            /\ UNCHANGED faults
    IN /\ EnvBounded
       /\ Done(run_stmt(World, action, "none"))

\* CoqEnv.reset() called by the user
EnvReset(fault) ==
    LET w == Entered(fault)
        Done(r) ==
            /\ Count(fault # "none")
            /\ Commit(r.w)
            /\ op' = "env_reset"
            /\ exc' = r.exc
            /\ obs' = [r.w.obs EXCEPT !.dead = ~w._proc.alive]
    IN /\ EnvBounded
       /\ Done(env_reset(w, fault))

EnvNext ==
    \/ \E action \in EnvActions : EnvStep(action)
    \/ \E fault \in CancelFaults : EnvReset(fault)

EnvSpec == EnvInit /\ [][EnvNext]_vars

\* a TacticHistory object on its own: its four mutators called in any order
\* that meets their preconditions
HistoryInit ==
    /\ Built(FALSE, FALSE)
    /\ arg = NoText
    /\ io = NoIO

RECURSIVE Nodes(_)
\* the entries and frames of a tree
Nodes(children) ==
    IF children = <<>> THEN 0
    ELSE 1 + Nodes(Front(children))
           + (IF Last(children).tac THEN 0 ELSE Nodes(Last(children).children))

HistoryFrame ==
    UNCHANGED <<cur_state, prev_state, proof_context, sm_stack, _local_lemmas,
                _local_lemmas_cache, _module_changed, _added_libs,
                includes, env, _hist, _n_resets, _proc,
                reset_on_cancel_fail, wrap, scope, exc, faults, arg, io>>

\* the call `name` turned the history into r.th
HistoryCall(name, args, r) ==
    /\ r.ok
    /\ tactic_history' = r.th
    /\ op' = name
    /\ obs' = [NoObs EXCEPT !.pre = [tactic_history |-> tactic_history],
                            !.after_stmt = op,
                            !.args = args]
    /\ HistoryFrame

OpenSubgoal(background_subgoals) ==
    /\ Nodes(tactic_history.tree) < MaxNodes
    /\ HistoryCall("openSubgoal", <<background_subgoals>>,
                   openSubgoal(tactic_history, background_subgoals))

CloseSubgoal ==
    /\ tactic_history.depth > 0
    /\ HistoryCall("closeSubgoal", <<>>, closeSubgoal(tactic_history))

AddTactic(tactic, sid) ==
    /\ Nodes(tactic_history.tree) < MaxNodes
    /\ HistoryCall("addTactic", <<tactic, sid>>,
                   addTactic(tactic_history, tactic, sid))

RemoveLast(all_subgoals) ==
    /\ tactic_history.tree # <<>>
    /\ HistoryCall("removeLast", <<all_subgoals>>,
                   removeLast(tactic_history, all_subgoals))

Goals == {<<>>, <<"B">>}

HistoryNext ==
    \/ \E b \in Goals : OpenSubgoal(b)
    \/ CloseSubgoal
    \/ \E sid \in 1..2 : AddTactic("split.", sid)
    \/ \E g \in Goals : RemoveLast(g)

HistorySpec == HistoryInit /\ [][HistoryNext]_vars

\* a query called by the user
Query(q, fault) ==
    LET w == Entered(fault)
        Done(r) ==
            /\ Count(fault = "die")
            /\ Commit(r.w)
            /\ op' = "query"
            /\ exc' = r.exc
            /\ obs' = [r.w.obs EXCEPT !.query = q,
                                      !.changed = Changed(Mirror(w), r.w),
                                      !.dead = ~w._proc.alive]
    IN /\ q \in QueryOps
       /\ Done(query(w, q, fault))

\* a client that asks between its statements: what it runs
QueryStmts == {"Lemma l.", "split.", "admit.", "Qed.", "Section S.", "End S."}

QueryNext ==
    \/ \E stmt \in QueryStmts : RunStmt(stmt, "none")
    \/ CancelLast("none")
    \/ \E q \in QueryOps, fault \in QueryFaults : Query(q, fault)

QuerySpec == Init /\ [][QueryNext]_vars

\* SerapiContext before coq = SerapiInstance(*args, **kwargs)
ContextInit ==
    \E rf \in BOOLEAN, wr \in BOOLEAN :
        LET w == Fresh(rf, wr, "start") IN
        /\ cur_state = w.cur_state
        /\ prev_state = w.prev_state
        /\ proof_context = w.proof_context
        /\ tactic_history = w.tactic_history
        /\ sm_stack = w.sm_stack
        /\ _local_lemmas = w._local_lemmas
        /\ _local_lemmas_cache = w._local_lemmas_cache
        /\ _module_changed = w._module_changed
        /\ _added_libs = w._added_libs
        /\ includes = w.includes
        /\ env = w.env
        /\ _hist = w._hist
        /\ _n_resets = w._n_resets
        /\ _proc = w._proc
        /\ reset_on_cancel_fail = rf
        /\ wrap = wr
        /\ scope = w.scope
        /\ op = "none"
        /\ exc = "none"
        /\ obs = NoObs
        /\ faults = 0
        /\ arg = NoText
        /\ io = NoIO

\* coq = SerapiInstance(*args, **kwargs), which is not inside the try: an
\* exception leaves SerapiContext at once, a return reaches the yield
ContextEnter(fault) ==
    LET Done(r) ==
            /\ Commit([r.w EXCEPT !.scope.at = IF r.exc = "none" THEN "body"
                                             ELSE "raised"])
            /\ op' = "init"
            /\ exc' = r.exc
            /\ obs' = r.w.obs
            /\ UNCHANGED faults
    IN /\ scope.at = "start"
       /\ Done(init(World, fault))

\* the body of the with statement is running and holds the instance
InBody == scope.at = "body"

\* what the body does with the instance
ContextRun(stmt) == InBody /\ RunStmt(stmt, "none")
ContextCancel == InBody /\ CancelLast("none")
ContextReset == InBody /\ ResetCall

\* the body ends, by reaching its end or by an exception: finally: coq.kill()
ContextExit(how) ==
    /\ InBody
    /\ Commit([kill(World) EXCEPT !.scope.at = "exited"])
    /\ op' = "exit"
    /\ exc' = IF how = "exception" THEN "Exception" ELSE "none"
    /\ obs' = NoObs
    /\ UNCHANGED faults

ContextNext ==
    \/ \E fault \in InitFaults : ContextEnter(fault)
    \/ \E stmt \in Stmts : ContextRun(stmt)
    \/ ContextCancel
    \/ ContextReset
    \/ \E how \in {"normal", "exception"} : ContextExit(how)

ContextSpec == ContextInit /\ [][ContextNext]_vars

\* kill_comments applied to a string, and again to what it returned
Strings == UNION {[1..n -> Chars] : n \in 0..MaxText}

TextInit ==
    /\ Built(FALSE, FALSE)
    /\ \E x \in Strings : arg = [string |-> x, before |-> x, applied |-> 0]
    /\ io = NoIO

KillComments ==
    /\ arg.applied < 2
    /\ arg' = [string |-> kill_comments(arg.string), before |-> arg.string,
                applied |-> arg.applied + 1]
    /\ UNCHANGED <<cur_state, prev_state, proof_context, tactic_history, sm_stack,
                   _local_lemmas, _local_lemmas_cache, _module_changed, _added_libs,
                includes, env, _hist, _n_resets,
          _proc, reset_on_cancel_fail,
                   wrap, scope, op, exc, obs, faults, io>>

TextSpec == TextInit /\ [][KillComments]_vars

RECURSIVE escape(_)
\* stmt.replace("\\", "\\\\") and then stmt.replace("\"", "\\\"")
escape(string) ==
    IF string = <<>> THEN <<>>
    ELSE (CASE Head(string) = "\\" -> <<"\\", "\\">>
            [] Head(string) = "\"" -> <<"\\", "\"">>
            [] OTHER -> <<Head(string)>>) \o escape(Tail(string))

\* the text run_stmt puts between the quotes of (Add () "..."): the statement
\* escaped, then its comments killed
add_text(stmt) == kill_comments(escape(stmt))

\* run_stmt up to the text it sends
EmbedText ==
    /\ arg.applied = 0
    /\ arg' = [string |-> add_text(arg.string), before |-> arg.string,
                applied |-> 1]
    /\ UNCHANGED <<cur_state, prev_state, proof_context, tactic_history, sm_stack,
                   _local_lemmas, _local_lemmas_cache, _module_changed, _added_libs,
                includes, env, _hist,
                   _n_resets, _proc, reset_on_cancel_fail, wrap, scope, op, exc,
                   obs, faults, io>>

EmbedSpec == TextInit /\ [][EmbedText]_vars

----------------------------------------------------------------------------
(* The reader thread (run), the main thread in kill() and init(), and the  *)
(* child writing to its stdout, step by step.  The objects the instance    *)
(* names (self.__sema, self._fout, self.message_queue) are numbered by the *)
(* child they were made for; a reader thread is numbered the same way.     *)

Readers == 1..MaxReaders

\* a reader thread: where it is in run(), the file object its readline was
\* called on, the line it holds
NoThread == [pc |-> "unstarted", holds |-> 0, line |-> [n |-> 0, blank |-> FALSE]]

\* the instance after its first init(): one child, its pipe open and silent,
\* its queue empty, its reader at the head of the loop
ReaderInit ==
    /\ Built(FALSE, FALSE)
    /\ arg = NoText
    /\ io = [main |-> "run",
             sema_ref |-> 1, fout_ref |-> 1, queue_ref |-> 1,
             sema |-> [g \in Readers |-> 0],
             pipes |-> [g \in Readers |-> [lines |-> <<>>, closed |-> FALSE,
                                          written |-> 0]],
             queues |-> [g \in Readers |-> <<>>],
             threads |-> [g \in Readers |->
                            IF g = 1 THEN [NoThread EXCEPT !.pc = "head"]
                            ELSE NoThread],
             stopped |-> {}]

ReaderFrame ==
    UNCHANGED <<cur_state, prev_state, proof_context, tactic_history, sm_stack,
                _local_lemmas, _local_lemmas_cache, _module_changed, _added_libs,
                includes, env, _hist, _n_resets,
          _proc, reset_on_cancel_fail,
                wrap, scope, op, exc, obs, faults, arg>>

\* the child behind pipe g writes a line, blank or not
Emit(g, blank) ==
    /\ g <= io.fout_ref
    /\ ~io.pipes[g].closed
    /\ io.pipes[g].written < MaxLines
    /\ io' = [io EXCEPT !.pipes[g].lines =
                             Append(@, [n |-> io.pipes[g].written + 1,
                                        blank |-> blank]),
                        !.pipes[g].written = @ + 1]
    /\ ReaderFrame

\* while not self.__sema.acquire(False): ... self._fout.readline() is entered
ReaderAcquire(t) ==
    /\ io.threads[t].pc = "head"
    /\ io' = IF io.sema[io.sema_ref] > 0
             THEN [io EXCEPT !.sema[io.sema_ref] = @ - 1,
                             !.threads[t].pc = "done",
                             !.stopped = @ \cup {[t |-> t, by |-> "flag"]}]
             ELSE [io EXCEPT !.threads[t].pc = "read",
                             !.threads[t].holds = io.fout_ref]
    /\ ReaderFrame

\* readline() returns: a line of the pipe, or "" at its end;
\* if line.strip() == '': break
ReaderReadline(t) ==
    LET f == io.threads[t].holds
        line == Head(io.pipes[f].lines)
    IN /\ io.threads[t].pc = "read"
       /\ io.pipes[f].lines # <<>> \/ io.pipes[f].closed
       /\ io' = IF io.pipes[f].lines = <<>>
                THEN [io EXCEPT !.threads[t].pc = "done",
                                !.stopped = @ \cup {[t |-> t, by |-> "eof"]}]
                ELSE IF line.blank
                THEN [io EXCEPT !.pipes[f].lines = Tail(@),
                                !.threads[t].pc = "done",
                                !.stopped = @ \cup {[t |-> t, by |-> "blank"]}]
                ELSE [io EXCEPT !.pipes[f].lines = Tail(@),
                                !.threads[t].pc = "put",
                                !.threads[t].line = line]
       /\ ReaderFrame

\* self.message_queue.put(line)
ReaderPut(t) ==
    /\ io.threads[t].pc = "put"
    /\ io' = [io EXCEPT !.queues[io.queue_ref] =
                            Append(@, [n |-> io.threads[t].line.n,
                                       from |-> io.threads[t].holds,
                                       by |-> t]),
                        !.threads[t].pc = "head"]
    /\ ReaderFrame

\* the main thread takes a message: self.message_queue.get(...)
MainGet ==
    /\ io.main = "run"
    /\ io.queues[io.queue_ref] # <<>>
    /\ io' = [io EXCEPT !.queues[io.queue_ref] = Tail(@)]
    /\ ReaderFrame

\* kill(): self._proc.terminate(); self._proc.kill(); self.__sema.release()
MainKill ==
    /\ io.main = "run"
    /\ io.fout_ref < MaxReaders
    /\ io' = [io EXCEPT !.pipes[io.fout_ref].closed = TRUE,
                        !.sema[io.sema_ref] = @ + 1,
                        !.main = "killed"]
    /\ ReaderFrame

\* init(): self.__sema = threading.Semaphore(value=0)
MainNewSema ==
    /\ io.main = "killed"
    /\ io' = [io EXCEPT !.sema_ref = @ + 1, !.main = "sema"]
    /\ ReaderFrame

\* init(): self._proc = subprocess.Popen(...); self._fout = self._proc.stdout
MainPopen ==
    /\ io.main = "sema"
    /\ io' = [io EXCEPT !.fout_ref = @ + 1, !.main = "popen"]
    /\ ReaderFrame

\* init(): self.message_queue = queue.Queue()
MainNewQueue ==
    /\ io.main = "popen"
    /\ io' = [io EXCEPT !.queue_ref = @ + 1, !.main = "queue"]
    /\ ReaderFrame

\* init(): self.start()
MainStart ==
    /\ io.main = "queue"
    /\ io' = [io EXCEPT !.threads[io.fout_ref].pc = "head", !.main = "run"]
    /\ ReaderFrame

ReaderNext ==
    \/ \E g \in Readers, blank \in BOOLEAN : Emit(g, blank)
    \/ \E t \in Readers : ReaderAcquire(t)
    \/ \E t \in Readers : ReaderReadline(t)
    \/ \E t \in Readers : ReaderPut(t)
    \/ MainGet
    \/ MainKill
    \/ MainNewSema
    \/ MainPopen
    \/ MainNewQueue
    \/ MainStart

ReaderSpec == ReaderInit /\ [][ReaderNext]_vars

----------------------------------------------------------------------------
(* The wire: the requests the main thread writes and the messages it takes *)
(* from the queue, each message carrying the request it answers.  The      *)
(* child answers a request at once and in full; s is [queue, sent, used,   *)
(* backlog], an operation yields [s, exc].                                 *)

Msg(r, kind) == [req |-> r, kind |-> kind]

\* _send_flush: the request is written; the child's answer is queued behind
\* whatever is still there
wire_write(s, kinds) ==
    [s EXCEPT !.sent = @ + 1,
              !.queue = @ \o [i \in 1..Len(kinds) |-> Msg(s.sent + 1, kinds[i])],
              !.backlog = @ \/ s.queue # <<>>]

WireRet(s) == [s |-> s, exc |-> "none"]
WireRaise(s, e) == [s |-> s, exc |-> e]

\* _get_message for the request written last: [s, kind], "Empty" when the
\* queue stays empty
wire_get(s, by) ==
    IF s.queue = <<>> THEN [s |-> s, kind |-> "Empty"]
    ELSE [s |-> [s EXCEPT !.queue = Tail(@),
                          !.used = @ \cup {[by |-> by, req |-> Head(s.queue).req]}],
          kind |-> Head(s.queue).kind]

\* the next message is matched against the kinds a step accepts
wire_expect(s, kinds, error) ==
    LET Matched(g) ==
            IF g.kind = "Empty" THEN WireRaise(g.s, "CoqAnomaly")   \* "Timing Out"
            ELSE IF g.kind \in kinds THEN WireRet(g.s)
            ELSE WireRaise(g.s, error)
    IN Matched(wire_get(s, s.sent))

RECURSIVE wire_get_ack(_)
\* _get_ack: Feedback is skipped, Ack ends it, anything else is an AckError
wire_get_ack(s) ==
    LET Matched(g) ==
            IF g.kind = "Empty" THEN WireRaise(g.s, "CoqAnomaly")
            ELSE IF g.kind = "Ack" THEN WireRet(g.s)
            ELSE IF g.kind \in {"Feedback", "Processed"} THEN wire_get_ack(g.s)
            ELSE WireRaise(g.s, "AckError")
    IN Matched(wire_get(s, s.sent))

RECURSIVE wire_flush_queue(_)
\* _flush_queue: whatever is in the queue is taken, before anything is written
wire_flush_queue(s) ==
    IF s.queue = <<>> THEN s ELSE wire_flush_queue(wire_get(s, 0).s)

RECURSIVE wire_get_next_state(_)
\* _get_next_state: Feedback and Completed are skipped; Added is the answer
wire_get_next_state(s) ==
    LET Matched(g) ==
            IF g.kind = "Empty" THEN WireRaise(g.s, "CoqAnomaly")
            ELSE IF g.kind \in {"Feedback", "Processed", "Completed"}
            THEN wire_get_next_state(g.s)
            ELSE IF g.kind = "Added" THEN WireRet(g.s)
            ELSE IF g.kind = "CoqExn" THEN WireRaise(g.s, "CoqExn")
            ELSE WireRaise(g.s, "BadResponse")
    IN Matched(wire_get(s, s.sent))

RECURSIVE wire_get_feedbacks(_)
\* _get_feedbacks: Feedback is collected up to the Completed or the CoqExn
wire_get_feedbacks(s) ==
    LET Matched(g) ==
            IF g.kind = "Empty" THEN WireRaise(g.s, "CoqAnomaly")
            ELSE IF g.kind \in {"Feedback", "Processed"} THEN wire_get_feedbacks(g.s)
            ELSE IF g.kind = "Completed" THEN WireRet(g.s)
            ELSE IF g.kind = "CoqExn" THEN WireRaise(g.s, "CoqExn")
            ELSE WireRaise(g.s, "BadResponse")
    IN Matched(wire_get(s, s.sent))

\* the step F is taken when r did not raise
WireThen(r, F(_)) == IF r.exc # "none" THEN r ELSE F(r.s)

wire_get_completed(s) == wire_expect(s, {"Completed"}, "CompletedError")

\* what the child answers to Check: the term's type, or an error
CheckAnswers == {"value", "coqexn"}

CheckStream(answer) ==
    IF answer = "value" THEN <<"Ack", "Processed", "Feedback", "ObjList", "Completed">>
    ELSE <<"Ack", "CoqExn", "Completed">>

\* check_term: _send_acked, three messages matched, _get_completed
wire_check_term(s, answer) ==
    LET Third(s3) == WireThen(wire_expect(s3, {"ObjList"}, "UnrecognizedError"),
                              wire_get_completed)
        Second(s2) == WireThen(wire_expect(s2, {"Feedback", "Processed"},
                                           "UnrecognizedError"), Third)
        First(s1) == WireThen(wire_expect(s1, {"Processed"}, "UnrecognizedError"),
                              Second)
    IN WireThen(wire_get_ack(wire_write(s, CheckStream(answer))), First)

\* what the child answers to the Add and the Exec of a statement: both
\* accepted, the Add refused with a syntax error, the Exec refused with a
\* message holding Invalid_argument
StmtAnswers == {"ok", "syntax", "invalid_argument"}

\* _ask_text("(Query () Goals)")
wire_ask_goals(s) ==
    LET Text(s2) == WireThen(wire_expect(s2, {"ObjList"}, "BadResponse"),
                             wire_get_completed)
    IN IF s.queue # <<>> THEN WireRaise(s, "AssertionError")
       ELSE WireThen(wire_get_ack(wire_write(s, <<"Ack", "ObjList", "Completed">>)),
                     Text)

\* run_stmt as far as the wire goes: _flush_queue, the Add, the Exec, the
\* goals, and what _handle_exception reads for the error met
wire_run_stmt(s, answer) ==
    LET \* the branches of _handle_exception for the two errors
        Handled(r) ==
            IF r.exc # "CoqExn" THEN r
            ELSE IF answer = "syntax"
            THEN WireThen(wire_get_completed(r.s), LAMBDA d : WireRaise(d, "ParseError"))
            ELSE WireRaise(r.s, "ParseError")     \* Invalid_argument: nothing is read
        Exec(s2) ==
            WireThen(WireThen(wire_get_ack(wire_write(s2,
                         IF answer = "ok" THEN <<"Ack", "Feedback", "Completed">>
                         ELSE <<"Ack", "CoqExn", "Completed">>)),
                              wire_get_feedbacks),
                     wire_ask_goals)
        Add(s1) ==
            WireThen(WireThen(WireThen(wire_get_ack(wire_write(s1,
                         IF answer = "syntax" THEN <<"Ack", "CoqExn", "Completed">>
                         ELSE <<"Ack", "Added", "Completed">>)),
                                       wire_get_next_state),
                              wire_get_completed),
                     Exec)
    IN Handled(Add(wire_flush_queue(s)))

WireInit ==
    /\ Built(FALSE, FALSE)
    /\ arg = NoText
    /\ io = [main |-> "wire", queue |-> <<>>, sent |-> 0, used |-> {},
             backlog |-> FALSE, call |-> "none", raised |-> "none"]

WireCommit(call, r) ==
    /\ io' = [io EXCEPT !.queue = r.s.queue, !.sent = r.s.sent,
                        !.used = r.s.used, !.backlog = r.s.backlog,
                        !.call = call, !.raised = r.exc]
    /\ ReaderFrame

\* the queue, the requests written and the messages taken so far
Wire == [queue |-> io.queue, sent |-> io.sent, used |-> io.used,
         backlog |-> io.backlog]

WireCheckTerm(answer) ==
    /\ io.sent < MaxRequests
    /\ WireCommit("check_term", wire_check_term(Wire, answer))

WireRunStmt(answer) ==
    /\ io.sent < MaxRequests
    /\ WireCommit("run_stmt", wire_run_stmt(Wire, answer))

WireNext ==
    \/ \E answer \in CheckAnswers : WireCheckTerm(answer)
    \/ \E answer \in StmtAnswers : WireRunStmt(answer)

WireSpec == WireInit /\ [][WireNext]_vars

----------------------------------------------------------------------------
(* One wait on the queue: _get_message_text and the _get_completed it      *)
(* calls.  What the queue yields is a script: each item is the message     *)
(* that arrives next, or "Empty" for a timeout during which none does;     *)
(* once the script is over nothing arrives any more.  w is [rest, ev]: the *)
(* script left and the events so far ("msg", "empty", "sigint"); a wait    *)
(* yields [w, out, value].                                                 *)

\* Feedback; the answers Added and Completed; Break, the answer
\* (Answer n (CoqExn ... Sys.Break ...)); SysBreak, a bare line Sys\.Break
WaitKinds == {"Empty", "Feedback", "Added", "Completed", "Break", "SysBreak"}

\* self.message_queue.get(timeout=self.timeout): [w, kind]
WaitGet(w) ==
    IF w.rest = <<>>
    THEN [w |-> [w EXCEPT !.ev = Append(@, "empty")], kind |-> "Empty"]
    ELSE [w |-> [rest |-> Tail(w.rest),
                 ev |-> Append(w.ev, IF Head(w.rest) = "Empty" THEN "empty"
                                     ELSE "msg")],
          kind |-> Head(w.rest)]

\* self.message_queue.empty()
WaitQueueEmpty(w) == w.rest = <<>> \/ Head(w.rest) = "Empty"

\* self._proc.send_signal(signal.SIGINT)
WaitInterrupt(w) == [w EXCEPT !.ev = Append(@, "sigint")]

WaitOut(w, out, value) == [w |-> w, out |-> out, value |-> value]

\* match(normalizeMessage(msg), "Sys\\.Break", ...): a string pattern equals
\* the message only when the message is that bare string
isBreakMessage(kind) == kind = "SysBreak"

\* ["Answer", int, ["CoqExn", TAIL]] -> False; ["Answer", TAIL] -> True
got_answer_after_interrupt(kind) == kind \in {"Added", "Completed"}

RECURSIVE wait_skip_feedback(_)
\* while msg.startswith('(Feedback'): msg = self.message_queue.get(...)
wait_skip_feedback(g) ==
    IF g.kind = "Feedback" THEN wait_skip_feedback(WaitGet(g.w)) ELSE g

RECURSIVE wait_breaks(_, _, _)
\* for i in range(num_breaks): get, with or without the assert
wait_breaks(w, n, checked) ==
    LET Got(g) ==
            IF g.kind = "Empty" THEN WaitOut(g.w, "Timing out", "")
            ELSE IF checked /\ ~isBreakMessage(g.kind)
            THEN WaitOut(g.w, "AssertionError", "")
            ELSE wait_breaks(g.w, n - 1, checked)
    IN IF n = 0 THEN WaitOut(w, "return", "") ELSE Got(WaitGet(w))

RECURSIVE _get_message_text(_, _, _)
RECURSIVE wait_get_message(_)

\* _get_message: a line that does not start with "(" is skipped
wait_get_message(w) ==
    LET Read(r) == IF r.out = "return" /\ r.value = "SysBreak"
                   THEN wait_get_message(r.w) ELSE r
    IN Read(_get_message_text(w, FALSE, FALSE))

\* _get_completed on the script
wait_get_completed(w) ==
    LET Read(r) == IF r.out # "return" THEN r
                   ELSE IF r.value = "Completed" THEN r
                   ELSE WaitOut(r.w, "CompletedError", r.value)
    IN Read(wait_get_message(w))

_get_message_text(w, complete, skip_feedback) ==
    LET \* the queue was empty after the one or two interrupts sent
        Emptied(r, out, value) ==
            IF r.out # "return" THEN r
            ELSE IF ~WaitQueueEmpty(r.w) THEN WaitOut(r.w, "AssertionError", "")
            ELSE WaitOut(r.w, out, value)
        Completed_(r, F(_)) == IF r.out # "return" THEN r ELSE F(r.w)
        \* interrupt_response arrived after num_breaks interrupts
        Response(g, num_breaks) ==
            IF got_answer_after_interrupt(g.kind)
            THEN Completed_(wait_get_completed(g.w),
                            LAMBDA c : Emptied(wait_breaks(c, num_breaks, TRUE),
                                               "return", g.kind))
            ELSE Completed_(wait_breaks(g.w, num_breaks, FALSE),
                            LAMBDA b : Emptied(wait_get_completed(b),
                                               "TimeoutError", ""))
        Second(g) ==
            IF g.kind = "Empty" THEN WaitOut(g.w, "Timing Out", "")
            ELSE Response(g, 2)
        First(g) ==
            IF g.kind = "Empty" THEN Second(WaitGet(WaitInterrupt(g.w)))
            ELSE Response(g, 1)
        \* except queue.Empty
        Interrupted(w1) == First(WaitGet(WaitInterrupt(w1)))
        \* the try block once a message is held
        Held(g) ==
            IF g.kind = "Empty" THEN Interrupted(g.w)
            ELSE IF complete
            THEN Completed_(wait_get_completed(g.w),
                            LAMBDA c : WaitOut(c, "return", g.kind))
            ELSE WaitOut(g.w, "return", g.kind)
        Taken(g) ==
            IF g.kind = "Empty" THEN Interrupted(g.w)
            ELSE Held(IF skip_feedback THEN wait_skip_feedback(g) ELSE g)
    IN Taken(WaitGet(w))

Scripts == UNION {[1..n -> WaitKinds] : n \in 0..MaxArrivals}

\* the flags of the callers: _get_message (neither), _ask_text (complete),
\* query_assumptions (both)
WaitFlags == {<<FALSE, FALSE>>, <<TRUE, FALSE>>, <<TRUE, TRUE>>}

WaitInit ==
    /\ Built(FALSE, FALSE)
    /\ arg = NoText
    /\ \E x \in Scripts, f \in WaitFlags :
          io = [main |-> "wait", script |-> x, complete |-> f[1],
                skip_feedback |-> f[2], done |-> FALSE,
                rest |-> x, ev |-> <<>>, out |-> "", value |-> ""]

\* the wait is made
WaitCall ==
    LET Done(r) ==
            io' = [io EXCEPT !.done = TRUE, !.rest = r.w.rest, !.ev = r.w.ev,
                             !.out = r.out, !.value = r.value]
    IN /\ io.main = "wait"
       /\ ~io.done
       /\ Done(_get_message_text([rest |-> io.script, ev |-> <<>>],
                                 io.complete, io.skip_feedback))
       /\ ReaderFrame

WaitSpec == WaitInit /\ [][WaitCall]_vars

----------------------------------------------------------------------------
(* The claims of the specification, as formulas over the state machine *)

\* the last call was a run_stmt that returned to its caller without raising
Returned == op = "run_stmt" /\ exc = "none"

\* the fields of the mirror that the claims on a failed call speak of
RestoredFields == {"cur_state", "proof_context", "tactic_history", "_hist"}

\* the CoqExn texts of a recoverable error at Exec
RecoverableMsgs == {"Unable to unify", "NoSuchGoals", "Not_found", "other"}

\* the exceptions run_stmt raises for a recoverable error
TypedErrors == {"CoqExn", "NoSuchGoalError"}

\* C1: whenever run_stmt returns normally, cur_state is the state id of the
\* most recent Added answer of the prover
C1_CurStateIsLastAdded ==
    Returned => cur_state = _proc.lastAdded

\* C2: whenever run_stmt returns normally, proof_context is none exactly when
\* the tactic history holds no tactic entry and no frame
C2_ContextNoneIffHistoryEmpty ==
    Returned => (proof_context.none <=> tactic_history.tree = <<>>)

\* C3: run_stmt(c) accepted and then cancel_last() returning leaves every
\* field of the mirror as it was before run_stmt(c)
C3_RunThenCancelIsNoOp ==
    (op = "cancel_last" /\ exc = "none" /\ obs.after_stmt # "")
        => obs.changed = {}

\* C4: a run_stmt whose Exec the prover answers with a recoverable CoqExn
\* raises the typed error, and cur_state, proof_context, the tactic history
\* and the command log are what they were before the call
C4_RecoverableErrorRestores ==
    (op = "run_stmt" /\ obs.raised = "CoqExn" /\ obs.stage = "exec"
        /\ obs.msg \in RecoverableMsgs)
        => (exc \in TypedErrors /\ obs.changed \cap RestoredFields = {})

\* C5: a run_stmt whose transaction hit an error (CoqExn, broken pipe,
\* ill-formed message, hang) does not return normally
C5_ErrorsAreRaised ==
    (op = "run_stmt" /\ obs.raised # "none") => exc # "none"

\* C6: a run_stmt that finds the child dead resets (the counter goes up by
\* one), replays the accepted log in order, and then executes the statement
C6_BrokenPipeResetsAndReplays ==
    (op = "run_stmt" /\ obs.dead)
        => /\ obs.resets = 1
           /\ obs.reset_ok
           /\ obs.replayed = [i \in 1..Len(obs.reset_log) |-> obs.reset_log[i].stmt]
           /\ _proc.alive

\* the statements of the accepted entries of a log, in order
AcceptedStmts(log) ==
    LET acc == SelectSeq(log, LAMBDA e : e.ok = "True")
    IN [i \in 1..Len(acc) |-> acc[i].stmt]

IsPrefix(s, t) == Len(s) <= Len(t) /\ SubSeq(t, 1, Len(s)) = s

\* C7: a statement the prover answers with a CoqExn classified as overflow
\* or anomaly makes run_stmt raise the anomaly error, a reset and the replay
\* of the log done by then
C7_AnomalyResetsBeforeRaising ==
    (op = "run_stmt" /\ obs.raised = "CoqExn"
        /\ obs.msg \in OverflowMsgs \cup {"Anomaly"})
        => (exc = "CoqAnomaly" /\ obs.resets = 1 /\ obs.reset_ok)

\* C8: a wait inside run_stmt that times out for good makes the driver drop
\* the pending entry, reset and replay, and raise the unrecoverable error
C8_HangResetsAndRaises ==
    (op = "run_stmt" /\ obs.hung)
        => /\ exc = "CoqAnomaly"
           /\ obs.resets = 1
           /\ obs.reset_ok
           /\ _hist = SelectSeq(obs.reset_log, LAMBDA e : e.ok = "True")

\* C9: a reset replays the accepted entries of the log as it stood, in
\* order, each once, and no other statement
C9_ResetReplaysAcceptedOnly ==
    obs.resets > 0
        => /\ IsPrefix(obs.replayed, AcceptedStmts(obs.reset_log))
           /\ obs.reset_ok => obs.replayed = AcceptedStmts(obs.reset_log)

\* C10: reset() on a log of accepted statements leaves a ProofContext equal
\* to the one held before it
C10_ResetKeepsProofContext ==
    (op = "reset" /\ exc = "none"
        /\ \A i \in 1..Len(obs.reset_log) : obs.reset_log[i].ok = "True")
        => proof_context = obs.reset_ctx

RECURSIVE TextsOf(_)
\* a tactic tree with the state ids of its entries left out
TextsOf(children) ==
    [i \in 1..Len(children) |->
        IF children[i].tac THEN [children[i] EXCEPT !.sid = 0]
        ELSE TacticTree(TextsOf(children[i].children))]

AllAccepted(log) == \A i \in 1..Len(log) : log[i].ok = "True"

\* C11: reset() on a log of accepted statements leaves the module/section
\* stack, the local-lemma registry, the tactic history and the statement
\* texts of the log as they were; only state ids may differ
C11_ResetKeepsApparentState ==
    [][(op' = "reset" /\ exc' = "none" /\ AllAccepted(_hist))
        => /\ sm_stack' = sm_stack
           /\ _local_lemmas' = _local_lemmas
           /\ TextsOf(tactic_history'.tree) = TextsOf(tactic_history.tree)
           /\ tactic_history'.depth = tactic_history.depth
           /\ AcceptedStmts(_hist') = AcceptedStmts(_hist)
           /\ AllAccepted(_hist')]_vars

\* C12: after accepted statements entered a proof and left it, cancel_last
\* called until proof_context is none again ends with cur_state at the value
\* it had just before the proof-starting statement ran, and none of those
\* cancel_last calls raises
C12_CancellingAProofRestoresCurState ==
    /\ obs.track.phase # "failed"
    /\ obs.track.phase = "undone" => cur_state = obs.track.base

C12_Witness ==
    /\ op = "cancel_last"
    /\ obs.track.phase = "undone"
    /\ cur_state = obs.track.base
    /\ _n_resets = 0

\* a call in which the prover answered a Cancel with (Canceled (ids)) and
\* the driver did not reset afterwards
CancelAnswered == obs.reply.canceled # <<>> /\ obs.resets = 0

\* C13 (as amended): after a Cancel request answered with Canceled, the new
\* cur_state is the span_id carried by the Feedback that precedes the
\* Canceled answer; the ids the answer lists are not used
C13_CurStateIsFeedbackSpanId ==
    CancelAnswered => cur_state = obs.reply.span_id

\* C13 (as stated): after a Cancel request the new cur_state is the least of
\* the state ids listed in the Canceled answer, whatever id the preceding
\* Feedback carries
C13_CurStateIsLeastCanceledId ==
    CancelAnswered => cur_state = SeqMin(obs.reply.canceled)

C13_Witness ==
    /\ op = "cancel_last" /\ exc = "none"
    /\ CancelAnswered
    /\ cur_state = obs.reply.span_id
    /\ obs.reply.span_id # SeqMin(obs.reply.canceled)

\* a call that sent nothing to the prover and changed no field of the mirror
NoOpCall == exc = "none" /\ obs.cancels = <<>> /\ obs.resets = 0 /\ obs.changed = {}

\* C14: cancel_failed() sends nothing and changes nothing when the last log
\* entry is accepted and its sid is cur_state; and it is a no-op when called
\* after a failed run_stmt whose handler already ran cancel_failed
C14_CancelFailedIdempotent ==
    (op = "cancel_failed" /\ (obs.settled \/ obs.after_failed)) => NoOpCall

LemmaOpeners == {"Lemma l.", "Let x."}
ProofClosers == {"Qed.", "Admitted.", "Abort."}

\* the log holds a lemma-opening statement with no proof-closing statement
\* after it
LemmaOpenIn(log) ==
    \E i \in 1..Len(log) :
        /\ log[i].stmt \in LemmaOpeners
        /\ \A j \in (i + 1)..Len(log) : log[j].stmt \notin ProofClosers

RECURSIVE LemmasKept(_)
\* the section marks of the lemmas a script leaves declared: a lemma-opening
\* statement declares one, Abort withdraws the last, the End of a section
\* withdraws those local to sections; Qed and Admitted withdraw none
LemmasKept(log) ==
    IF log = <<>> THEN <<>>
    ELSE LET kept == LemmasKept(Front(log))
             stmt == Last(log).stmt
         IN CASE stmt \in LemmaOpeners -> Append(kept, stmt = "Let x.")
              [] stmt = "Abort." -> Front(kept)
              [] stmt = "End S." -> SelectSeq(kept, LAMBDA sec : ~sec)
              [] OTHER -> kept

\* a state reached by accepted statements only
OnlyAccepted == faults = 0 /\ AllAccepted(_hist)

Accepted(stmt) == op = "run_stmt" /\ exc = "none" /\ obs.accepted /\ obs.stmt = stmt

\* C16: an accepted End of a section leaves the registry it found without
\* the entries marked is_section, the others in their order; an accepted End
\* of a module leaves the registry as it was and takes the module's name off
\* module_prefix
C16_EndDropsSectionLemmasOnly ==
    /\ Accepted("End S.") =>
          _local_lemmas = SelectSeq(obs.pre._local_lemmas, LAMBDA l : ~l.is_section)
    /\ Accepted("End M.") =>
          /\ _local_lemmas = obs.pre._local_lemmas
          /\ module_prefix(obs.pre.sm_stack) = Append(module_prefix(sm_stack), "M")

C16_Witness ==
    /\ Accepted("End S.")
    /\ \E i, j \in 1..Len(obs.pre._local_lemmas) :
          obs.pre._local_lemmas[i].is_section /\ ~obs.pre._local_lemmas[j].is_section
    /\ _local_lemmas # <<>>
    /\ \A i \in 1..Len(_local_lemmas) : ~_local_lemmas[i].is_section

\* the name an End statement carries
EndName(stmt) == IF stmt = "End M." THEN "M" ELSE "S"

\* the last call was run_stmt of an End statement, with no reset inside it
EndRun == op = "run_stmt" /\ obs.ended.stmt # "" /\ obs.resets = 0

EndMatches == /\ obs.ended.stack # <<>>
              /\ Last(obs.ended.stack).name = EndName(obs.ended.stmt)

\* C17: run on 'End N.', update_sm_stack yields the stack without its top
\* entry when that entry is named N, module or section; when the top has
\* another name or the stack is empty an error is raised and the driver's
\* stack stays as it was
C17_EndPopsMatchingTopElseError ==
    EndRun => IF EndMatches
              THEN sm_stack = Front(obs.ended.stack)
              ELSE exc # "none" /\ sm_stack = obs.ended.stack

C17_Witness ==
    /\ EndRun
    /\ obs.ended.stack # <<>>
    /\ ~EndMatches
    /\ exc = "AssertionError"
    /\ sm_stack = obs.ended.stack

\* C18: kill_comments is idempotent: applied to its own result it returns
\* that result
C18_KillCommentsIdempotent ==
    arg.applied = 2 => arg.string = arg.before

\* C19: a query, whether it returns or raises, leaves cur_state,
\* proof_context, the tactic history, the module/section stack, the
\* local-lemma registry and the command log as they were
C19_QueriesLeaveMirror ==
    op = "query" => obs.changed = {}

C19_Witness ==
    /\ op = "query" /\ exc # "none" /\ obs.changed = {}
    /\ ~proof_context.none /\ proof_context.fg = <<>>
    /\ obs.query = "check_term"

\* SerapiContext is over: the with statement was left, or never entered
ContextOver == scope.at \in {"exited", "raised"}

\* C20: on every way out of SerapiContext (the body ends, the body raises,
\* the construction of the instance raises after the child was spawned)
\* every child the driver spawned has been killed
C20_EveryChildKilledOnExit ==
    ContextOver => scope.live = {}

\* the number of obligations of a context
Obligations(c) == Len(c.fg) + Len(c.bg) + Len(c.shelved) + Len(c.given_up)

\* the last call was a run_stmt that accepted one of stmts
AcceptedOneOf(stmts) == LastAccepted /\ obs.stmt \in stmts

\* C21: an accepted goal-open statement ('{' or 'n: {') in the context
\* (fg, bg, shelved, given_up) leaves ([fg[0]], bg ++ fg[1:], shelved,
\* given_up): the number of obligations is kept, shelved and given_up are
\* untouched; an accepted '}' leaves the four sequences the prover reports
C21_GoalOpenKeepsObligations ==
    /\ AcceptedOneOf({"{", "2: {"}) =>
         LET before == obs.pre.proof_context IN
         /\ ~before.none /\ before.fg # <<>>
         /\ proof_context = ProofContext(<<before.fg[1]>>,
                                         before.bg \o Tail(before.fg),
                                         before.shelved, before.given_up)
         /\ Obligations(proof_context) = Obligations(before)
    /\ AcceptedOneOf({"}"}) => proof_context = ProverGoals(_proc)

C21_Witness ==
    /\ AcceptedOneOf({"2: {"})
    /\ Len(obs.pre.proof_context.fg) = 2
    /\ proof_context.fg = <<"A">> /\ proof_context.bg = <<"B">>

\* the reader threads are followed
Threads == IF io.main \in {"none", "wire", "wait"} THEN {} ELSE Readers

\* C22: a reader thread started for one child reads no other child's stdout
\* and puts nothing into another child's queue, so that one reader at most
\* feeds the queue the main thread takes from, across kill() and init() too
C22_OneReaderPerQueue ==
    /\ \A t \in Threads :
         io.threads[t].pc \in {"read", "put"} => io.threads[t].holds = t
    /\ \A q \in Threads :
         \A i \in 1..Len(io.queues[q]) : io.queues[q][i].by = q

\* C26: the reader thread puts every non-empty line of the child's stdout
\* into the queue and stops only once the termination flag is set or the
\* pipe is closed: nothing else ends it while lines may still arrive
C26_ReaderStopsOnlyOnFlagOrEof ==
    \A r \in (IF Threads = {} THEN {} ELSE io.stopped) :
        r.by \in {"flag", "eof"}

\* the messages taken from the queue while a request was being handled
\* (those _flush_queue takes before a request is written are not among them)
TakenForRequests == IF io.main = "wire" THEN {u \in io.used : u.by # 0} ELSE {}

\* C23: a request is written only once the answer to the one before it has
\* been taken from the queue up to its Completed, whether that one succeeded
\* or failed; so every message taken while a request is handled answers
\* that request
C23_RequestWrittenAfterCompleted ==
    /\ io.main = "wire" => ~io.backlog
    /\ \A u \in TakenForRequests : u.by = u.req

\* a wait has been made
Waited == io.main = "wait" /\ io.done

\* how often e occurs in the events of the wait
RECURSIVE Occurrences(_, _)
Occurrences(ev, e) ==
    IF ev = <<>> THEN 0
    ELSE (IF Head(ev) = e THEN 1 ELSE 0) + Occurrences(Tail(ev), e)

\* the wait ended on its third timeout in a row, an interrupt sent after each
\* of the first two
ThreeTimeoutsInARow(ev) ==
    /\ Len(ev) >= 5
    /\ SubSeq(ev, Len(ev) - 4, Len(ev)) = <<"empty", "sigint", "empty", "sigint", "empty">>

\* C24: one wait sends two interrupts at most, the first after a timeout
\* without a message and the second after a further one; it raises the
\* 'timing out' error only after a third timeout in a row; and it sends no
\* interrupt when a message arrives within the first timeout
C24_TwoInterruptsThenTimingOut ==
    Waited =>
      /\ Occurrences(io.ev, "sigint") <= 2
      /\ io.out \in {"Timing Out", "Timing out"} => ThreeTimeoutsInARow(io.ev)
      /\ (io.script # <<>> /\ io.script[1] # "Empty") =>
             Occurrences(io.ev, "sigint") = 0

\* n times the item x
Repeated(x, n) == [i \in 1..n |-> x]

\* the scripts of C25: k timeouts (k interrupts), then an answer that is not
\* a CoqExn, then the Completed of its request unless the answer is that
\* Completed, then k acknowledgements of the interrupts
AnsweredAfterInterrupt(script, k, answer, break) ==
    script = Repeated("Empty", k) \o <<answer>>
             \o (IF answer = "Completed" THEN <<>> ELSE <<"Completed">>)
             \o Repeated(break, k)

\* C25: when the first message after the interrupts is an answer other than
\* CoqExn, the wait returns it, having taken one Completed and as many Break
\* acknowledgements as it sent interrupts, with the queue left empty and
\* without a further timeout
C25_AnswerAfterInterruptReturned ==
    \A k \in 1..2, answer \in {"Added", "Completed"}, break \in {"Break", "SysBreak"} :
        (/\ Waited /\ ~io.complete
         /\ AnsweredAfterInterrupt(io.script, k, answer, break))
        => /\ io.out = "return" /\ io.value = answer
           /\ io.rest = <<>>
           /\ Occurrences(io.ev, "sigint") = k
           /\ Occurrences(io.ev, "empty") = k

\* every entry of the log is marked accepted and carries a state id
LogOfAccepted(hist) ==
    \A i \in 1..Len(hist) : hist[i].ok = "True" /\ hist[i].sid > 0

\* C27: once run_stmt has returned or raised, whatever the error, the log
\* holds accepted entries only, each with the state id it was accepted at;
\* no entry of a statement that did not complete stays in it
C27_LogHoldsAcceptedOnly ==
    op = "run_stmt" => LogOfAccepted(_hist)

\* the last call was a run_stmt whose statement failed with an error that
\* _handle_exception recovers from, and the cancel of the recovery raised
CancelOfRecoveryRaised ==
    /\ op = "run_stmt"
    /\ obs.raised \in HandledExns
    /\ obs.cancel_raised # "none"

\* C28: when the cancel issued while recovering from a failed run_stmt raises
\* and reset_on_cancel_fail is set, one reset is made, and it replays every
\* statement accepted before the failed one; when the flag is not set, no
\* reset is made and the error of the cancel leaves run_stmt
C28_FailedCancelResetsWithFullReplay ==
    CancelOfRecoveryRaised =>
        IF reset_on_cancel_fail
        THEN /\ obs.resets = 1
             /\ AcceptedStmts(obs.reset_log) = AcceptedStmts(obs.log_before)
        ELSE /\ obs.resets = 0
             /\ exc = obs.cancel_raised

RECURSIVE HoldsSid(_, _)
\* some tactic entry of the tree was recorded with the state id
HoldsSid(children, sid) ==
    \E i \in 1..Len(children) :
        IF children[i].tac THEN children[i].sid = sid
        ELSE HoldsSid(children[i].children, sid)

BraceStmts == {"{", "2: {", "}"}

\* C29: after cancel_last has cancelled state S the tactic history holds no
\* tactic entry recorded with S, and when the statement that produced S is a
\* brace, the frame depth and the shadow background stack of the history are
\* the ones from before that statement
C29_CancelRestoresHistory ==
    [][(op' = "cancel_last" /\ exc' = "none")
        => /\ ~HoldsSid(tactic_history'.tree, cur_state)
           /\ AcceptedOneOf(BraceStmts) =>
                /\ tactic_history'.depth = obs.pre.tactic_history.depth
                /\ tactic_history'.subgoal_tree
                     = obs.pre.tactic_history.subgoal_tree]_vars

\* C30: cancel_last never fails its check that the tactic history is empty
\* when no proof is open after the cancel, whatever accepted statements and
\* cancel_last calls came before
C30_HistoryNeverDesynced ==
    ~(/\ op = "cancel_last" /\ exc = "AssertionError"
      /\ faults = 1                       \* every call before was accepted
      /\ obs.cancel_raised = "none"       \* __cancel itself went through
      /\ proof_context.none /\ FullHistoryNonEmpty(tactic_history))

\* the state ids the Cancels of the last call named
CancelledIds == {obs.cancels[i] : i \in 1..Len(obs.cancels)}

\* C31: a Cancel sent by the cancel_failed of a failed run_stmt names a state
\* that was Added for the failed statement: never a state that was in the
\* document before the call (an accepted statement, the module wrapper,
\* 'Unset Printing Notations')
C31_CancelFailedTargetsFailedState ==
    [][(op' = "run_stmt" /\ obs'.raised \in HandledExns /\ obs'.resets = 0)
        => \A sid \in CancelledIds' : sid >= _proc.next]_vars

\* C32: a run_stmt call that raises leaves the module/section stack and the
\* local-lemma registry as they were before the call
C32_RaisingRunKeepsStacks ==
    [][(op' = "run_stmt" /\ exc' # "none")
        => /\ sm_stack' = sm_stack
           /\ _local_lemmas' = _local_lemmas]_vars

\* C33: an accepted proof-opening command followed by accepted tactics and an
\* accepted Abort leaves the local-lemma registry as it was before the
\* proof-opening command, whatever number of statements the command registered
C33_AbortRestoresRegistry ==
    (AcceptedOneOf({"Abort."}) /\ obs.track.phase = "left")
        => _local_lemmas = obs.track.lemmas

\* the registry with the current module prefix stripped from each entry
RegistryView ==
    [i \in 1..Len(_local_lemmas) |->
        StripPrefix(module_prefix(sm_stack), _local_lemmas[i].lemma)]

\* C34: what the property local_lemmas returns is the registry with the
\* current module prefix stripped from each entry, in order, after any
\* accepted run_stmt and any cancel_last
C34_ViewIsRegistry ==
    op = "local_lemmas" => (~obs.view.none /\ obs.view.items = RegistryView)

\* the errors of the taxonomy
TaxonomyErrors == {"CoqExn", "ParseError", "NoSuchGoalError", "TimeoutError",
                   "CoqAnomaly", "UnrecognizedError", "BadResponse", "AckError",
                   "CompletedError"}

\* C35: a statement that fails while the log holds no accepted entry is
\* recovered from like any other: run_stmt raises an error of the taxonomy,
\* and looking at the last entry of the log does not fail on an empty log
C35_FailureOnEmptyLogIsTyped ==
    (op = "run_stmt" /\ obs.raised \in HandledExns /\ _hist = <<>>)
        => exc \in TaxonomyErrors

\* the last call was one of TacticHistory's mutators
HistoryOps == {"openSubgoal", "closeSubgoal", "addTactic", "removeLast"}

\* C36: under calls of openSubgoal, closeSubgoal, addTactic and removeLast
\* that meet their preconditions the depth is not negative, it is the length
\* of the shadow stack, following the last child depth times from the root
\* reaches a frame, and addTactic appends to that frame and nowhere else
C36_HistoryWellFormed ==
    /\ tactic_history.depth >= 0
    /\ tactic_history.depth = Len(tactic_history.subgoal_tree)
    /\ PathOK(tactic_history.tree, tactic_history.depth)
    /\ op = "addTactic" =>
         LET before == obs.pre.tactic_history IN
         /\ tactic_history.depth = before.depth
         /\ Front(FrameAt(tactic_history.tree, tactic_history.depth))
              = FrameAt(before.tree, before.depth)
         /\ Last(FrameAt(tactic_history.tree, tactic_history.depth))
              = TacEntry(obs.args[1], obs.args[2])
         /\ \A k \in 0..(before.depth - 1) :
              /\ Len(FrameAt(tactic_history.tree, k)) = Len(FrameAt(before.tree, k))
              /\ Front(FrameAt(tactic_history.tree, k)) = Front(FrameAt(before.tree, k))

C36_Witness ==
    /\ op = "addTactic"
    /\ tactic_history.depth = 2
    /\ Len(FrameAt(tactic_history.tree, 2)) = 1
    /\ obs.after_stmt = "removeLast"

\* C37: removeLast undoes the mutation before it: after addTactic or
\* openSubgoal it restores the history; after closeSubgoal it restores tree
\* and depth and pushes its argument on the shadow stack
C37_RemoveLastUndoes ==
    [][(op \in HistoryOps /\ op' = "removeLast") =>
         LET h == obs.pre.tactic_history IN
         CASE op \in {"addTactic", "openSubgoal"} -> tactic_history' = h
           [] op = "closeSubgoal" ->
                /\ tactic_history'.tree = h.tree
                /\ tactic_history'.depth = h.depth
                /\ Front(tactic_history'.subgoal_tree) = tactic_history.subgoal_tree
                /\ Last(tactic_history'.subgoal_tree) = obs'.args[1]
                /\ Len(tactic_history'.subgoal_tree) = Len(h.subgoal_tree)
           [] OTHER -> TRUE]_vars

C37_Witness ==
    /\ op = "removeLast" /\ obs.after_stmt = "closeSubgoal"
    /\ tactic_history.depth = 2
    /\ Last(tactic_history.subgoal_tree) = <<"B">>
    /\ obs.pre.tactic_history.depth = 1

\* C38: the text run_stmt embeds in (Add () "...") is the statement with its
\* comments removed, a string literal of the statement being kept whole, and
\* then \ replaced by \\ and " by \"
C38_AddTextIsEscapedStripped ==
    arg.applied = 1 => arg.string = escape(kill_comments(arg.before))

\* how many sentences of the child's document are the request
TimesSent(addStm) ==
    Cardinality({i \in 1..Len(_proc.doc) : _proc.doc[i].stmt = addStm})

\* C39: every child the instance starts, the first and the one of a reset,
\* is sent the load-path request of each distinct entry once during its
\* initialization: not twice, and not never
C39_LoadPathsOncePerChild ==
    (op \in {"init", "reset"} /\ exc = "none")
        => \A i \in 1..Len(includes) : TimesSent(includes[i]) = 1

\* C40: CoqEnv.reset() comes back, and when it does cur_state is
\* proof_search_id, the state right after coq_commands, and the observation
\* returned is the current proof_context -- also when a cancel_last issued by
\* it fails and the reset-on-cancel-failure path is taken
C40_EnvResetReturnsAtSearchState ==
    op = "env_reset"
        => /\ exc = "none"
           /\ ~env.proof_search_id.none
           /\ cur_state = env.proof_search_id.id
           /\ obs.observation = proof_context

====
